---------------------------- MODULE Spec2Model ----------------------------
(***************************************************************************)
(* SM4 / SM3 primitives and the constructions built on them: SM4-GCM,      *)
(* the SM3 length-extension attack and the RFC 6962 style Merkle tree.     *)
(*                                                                         *)
(* Representation of machine values.  A byte is a number in 0..255.  A     *)
(* uint32_t is a pair <<hi, lo>> of 16-bit halves (the model checker's     *)
(* integers are 32-bit signed, so a uint32_t does not fit in one of        *)
(* them); all arithmetic on words is modulo 2^32.  A byte buffer is a      *)
(* sequence of bytes; C index k is sequence index k + 1.                   *)
(***************************************************************************)
EXTENDS Integers, Sequences, FiniteSets, TLC

(***************************************************************************)
(* Bitwise operators of C on bytes, 16-bit halves and 32-bit words.        *)
(***************************************************************************)
AndNib ==
  << <<0, 0, 0, 0, 0, 0, 0, 0, 0, 0, 0, 0, 0, 0, 0, 0>>,
     <<0, 1, 0, 1, 0, 1, 0, 1, 0, 1, 0, 1, 0, 1, 0, 1>>,
     <<0, 0, 2, 2, 0, 0, 2, 2, 0, 0, 2, 2, 0, 0, 2, 2>>,
     <<0, 1, 2, 3, 0, 1, 2, 3, 0, 1, 2, 3, 0, 1, 2, 3>>,
     <<0, 0, 0, 0, 4, 4, 4, 4, 0, 0, 0, 0, 4, 4, 4, 4>>,
     <<0, 1, 0, 1, 4, 5, 4, 5, 0, 1, 0, 1, 4, 5, 4, 5>>,
     <<0, 0, 2, 2, 4, 4, 6, 6, 0, 0, 2, 2, 4, 4, 6, 6>>,
     <<0, 1, 2, 3, 4, 5, 6, 7, 0, 1, 2, 3, 4, 5, 6, 7>>,
     <<0, 0, 0, 0, 0, 0, 0, 0, 8, 8, 8, 8, 8, 8, 8, 8>>,
     <<0, 1, 0, 1, 0, 1, 0, 1, 8, 9, 8, 9, 8, 9, 8, 9>>,
     <<0, 0, 2, 2, 0, 0, 2, 2, 8, 8, 10, 10, 8, 8, 10, 10>>,
     <<0, 1, 2, 3, 0, 1, 2, 3, 8, 9, 10, 11, 8, 9, 10, 11>>,
     <<0, 0, 0, 0, 4, 4, 4, 4, 8, 8, 8, 8, 12, 12, 12, 12>>,
     <<0, 1, 0, 1, 4, 5, 4, 5, 8, 9, 8, 9, 12, 13, 12, 13>>,
     <<0, 0, 2, 2, 4, 4, 6, 6, 8, 8, 10, 10, 12, 12, 14, 14>>,
     <<0, 1, 2, 3, 4, 5, 6, 7, 8, 9, 10, 11, 12, 13, 14, 15>> >>

Pow2T ==
  <<1, 2, 4, 8, 16, 32, 64, 128, 256, 512, 1024, 2048, 4096, 8192, 16384,
    32768, 65536>>

Pow2(k) == Pow2T[k + 1]

\* x & y, x ^ y, x | y on bytes
And8(x, y) ==
  AndNib[(x \div 16) + 1][(y \div 16) + 1] * 16
    + AndNib[(x % 16) + 1][(y % 16) + 1]

Xor8(x, y) == (x + y) - (2 * And8(x, y))

Or8(x, y) == (x + y) - And8(x, y)

\* the same on 16-bit halves
And16(x, y) ==
  And8(x \div 256, y \div 256) * 256 + And8(x % 256, y % 256)

Xor16(x, y) == (x + y) - (2 * And16(x, y))

\* uint32_t operators: ^  &  |  ~  +
WXor(a, b) == <<Xor16(a[1], b[1]), Xor16(a[2], b[2])>>

WAnd(a, b) == <<And16(a[1], b[1]), And16(a[2], b[2])>>

WOr(a, b) ==
  <<(a[1] + b[1]) - And16(a[1], b[1]), (a[2] + b[2]) - And16(a[2], b[2])>>

WNot(a) == <<65535 - a[1], 65535 - a[2]>>

WAdd(a, b) ==
  <<(a[1] + b[1] + ((a[2] + b[2]) \div 65536)) % 65536,
    (a[2] + b[2]) % 65536>>

\* rotate left by 0 < k < 16 inside the pair of halves
RotHalves(a, k) ==
  <<((a[1] * Pow2(k)) % 65536) + (a[2] \div Pow2(16 - k)),
    ((a[2] * Pow2(k)) % 65536) + (a[1] \div Pow2(16 - k))>>

(***************************************************************************)
(* ROTL32(x, n) ((x << n) | (x >> (32 - n))) of sm3.h, 0 <= n < 32.  For   *)
(* n = 0 the macro shifts right by 32, which C leaves undefined; every     *)
(* build produces x | x or x | 0, that is x, and so does the model.        *)
(***************************************************************************)
ROTL32(x, k) ==
  IF k = 0 THEN x
  ELSE IF k = 16 THEN <<x[2], x[1]>>
  ELSE IF k > 16 THEN RotHalves(<<x[2], x[1]>>, k - 16)
  ELSE RotHalves(x, k)

\* big-endian load of the uint32_t at C offset k of byte buffer b
LoadBE32(b, k) ==
  <<(b[k + 1] * 256) + b[k + 2], (b[k + 3] * 256) + b[k + 4]>>

\* the four bytes of a word, most significant first
StoreBE32(w) == <<w[1] \div 256, w[1] % 256, w[2] \div 256, w[2] % 256>>

\* bytes k (C offset) .. k + n - 1 of buffer b
Bytes(b, k, len) == [i \in 1..len |-> b[k + i]]

\* (x >> k) & 0xFF for a 64-bit x that the model keeps below 2^31
ByteOfShift(x, k) == IF k >= 31 THEN 0 ELSE (x \div (2 ^ k)) % 256

\* the 8 big-endian bytes of a 64-bit length
BE64(x) == [i \in 1..8 |-> ByteOfShift(x, 64 - (8 * i))]

(***************************************************************************)
(* SM3 (project4/src/sm3.h, sm3_basic.c)                                   *)
(***************************************************************************)
SM3_BLOCK_SIZE == 64

SM3_DIGEST_SIZE == 32

sm3_iv ==
  << <<29568, 5743>>, <<18708, 45753>>, <<5924, 17111>>, <<55946, 1536>>,
     <<43375, 12476>>, <<5681, 14506>>, <<58253, 61005>>, <<45307, 3662>> >>

\* 0x79CC4519 and 0x7A879D8A
T_0_15 == <<31180, 17689>>

T_16_63 == <<31367, 40330>>

T(j) == IF j < 16 THEN T_0_15 ELSE T_16_63

P0(x) == WXor(WXor(x, ROTL32(x, 9)), ROTL32(x, 17))

\* P1 with the rotation of P0 in its last term
P1_rotating_by_17(x) == WXor(WXor(x, ROTL32(x, 15)), ROTL32(x, 17))

P1(x) == WXor(WXor(x, ROTL32(x, 15)), ROTL32(x, 23))

FF(x, y, z, j) ==
  IF j < 16 THEN WXor(WXor(x, y), z)
  ELSE WOr(WOr(WAnd(x, y), WAnd(x, z)), WAnd(y, z))

GG(x, y, z, j) ==
  IF j < 16 THEN WXor(WXor(x, y), z)
  ELSE WOr(WAnd(x, y), WAnd(WNot(x), z))

\* W[j] of the message expansion from the words before it (C index j)
ExpandWord(W, j) ==
  WXor(WXor(P1(WXor(WXor(W[j - 15], W[j - 8]), ROTL32(W[j - 2], 15))),
            ROTL32(W[j - 12], 7)),
       W[j - 5])

\* W[0..15]: the block as 16 big-endian words
LoadBlock(block) == [j \in 1..16 |-> LoadBE32(block, 4 * (j - 1))]

\* for (j = 16; j < 68; j++) W[j] = ...
RECURSIVE MessageExpansion(_)
MessageExpansion(W) ==
  IF Len(W) >= 68 THEN W
  ELSE MessageExpansion(Append(W, ExpandWord(W, Len(W))))

\* for (j = 16; j < 68; j += 4) { W[j] = ..; W[j+1] = ..; W[j+2] = ..; W[j+3] = .. }
\* W extended by the word the expansion computes for C index j
AppendExpanded(W, j) == Append(W, ExpandWord(W, j))

RECURSIVE MessageExpansionUnrolled(_)
MessageExpansionUnrolled(W) ==
  IF Len(W) >= 68 THEN W
  ELSE MessageExpansionUnrolled(
         AppendExpanded(
           AppendExpanded(
             AppendExpanded(AppendExpanded(W, Len(W)), Len(W) + 1),
             Len(W) + 2),
           Len(W) + 3))

\* one round of the compression loop; ff and gg are the two boolean
\* functions already applied to (A, B, C) and (E, F, G), tj the round constant
RoundStep(v, W, j, ff, gg, tj) ==
  LET A12 == ROTL32(v[1], 12)
      SS1 == ROTL32(WAdd(WAdd(A12, v[5]), tj), 7)
      SS2 == WXor(SS1, A12)
      TT1 == WAdd(WAdd(WAdd(ff, v[4]), SS2), WXor(W[j + 1], W[j + 5]))
      TT2 == WAdd(WAdd(WAdd(gg, v[8]), SS1), W[j + 1])
  IN <<TT1, v[1], ROTL32(v[2], 9), v[3], P0(TT2), v[5], ROTL32(v[6], 19), v[7]>>

\* for (j = 0; j < 64; j++) of sm3_compress_basic
RECURSIVE BasicRounds(_, _, _)
BasicRounds(v, W, j) ==
  IF j >= 64 \/ Len(v) # 8 THEN v
  ELSE BasicRounds(RoundStep(v, W, j, FF(v[1], v[2], v[3], j),
                             GG(v[5], v[6], v[7], j), ROTL32(T(j), j % 32)),
                   W, j + 1)

\* for (j = 0; j < 16; j++) of sm3_compress_optimized
RECURSIVE Rounds0to15(_, _, _)
Rounds0to15(v, W, j) ==
  IF j >= 16 \/ Len(v) # 8 THEN v
  ELSE Rounds0to15(RoundStep(v, W, j, WXor(WXor(v[1], v[2]), v[3]),
                             WXor(WXor(v[5], v[6]), v[7]), ROTL32(T_0_15, j)),
                   W, j + 1)

\* rounds 16 .. 63 with the boolean functions of rounds 0 .. 15
RECURSIVE Rounds16to63Xor(_, _, _)
Rounds16to63Xor(v, W, j) ==
  IF j >= 64 \/ Len(v) # 8 THEN v
  ELSE Rounds16to63Xor(
         RoundStep(v, W, j, WXor(WXor(v[1], v[2]), v[3]),
                   WXor(WXor(v[5], v[6]), v[7]), ROTL32(T_16_63, j % 32)),
         W, j + 1)

\* for (j = 16; j < 64; j++) of sm3_compress_optimized
RECURSIVE Rounds16to63(_, _, _)
Rounds16to63(v, W, j) ==
  IF j >= 64 \/ Len(v) # 8 THEN v
  ELSE Rounds16to63(
         RoundStep(v, W, j,
                   WOr(WOr(WAnd(v[1], v[2]), WAnd(v[1], v[3])), WAnd(v[2], v[3])),
                   WOr(WAnd(v[5], v[6]), WAnd(WNot(v[5]), v[7])),
                   ROTL32(T_16_63, j % 32)),
         W, j + 1)

\* state[0] ^= A; ... state[7] ^= H
FeedForward(state, v) ==
  <<WXor(state[1], v[1]), WXor(state[2], v[2]), WXor(state[3], v[3]),
    WXor(state[4], v[4]), WXor(state[5], v[5]), WXor(state[6], v[6]),
    WXor(state[7], v[7]), WXor(state[8], v[8])>>

sm3_compress_basic(state, block) ==
  FeedForward(state, BasicRounds(state, MessageExpansion(LoadBlock(block)), 0))

sm3_compress_optimized(state, block) ==
  LET W == MessageExpansionUnrolled(LoadBlock(block))
  IN FeedForward(state, Rounds16to63(Rounds0to15(state, W, 0), W, 16))

\* sm3_ctx_t: state[8], count (bytes absorbed so far), buffer[64]
sm3_init ==
  [state |-> sm3_iv, count |-> 0, buffer |-> [i \in 1..SM3_BLOCK_SIZE |-> 0]]

\* while (len >= SM3_BLOCK_SIZE) { compress(state, data); data += 64; len -= 64; }
\* over the n whole blocks of data that start at offset off
RECURSIVE CompressBlocks(_, _, _, _)
CompressBlocks(state, data, off, n) ==
  IF n <= 0 \/ Len(state) # 8 THEN state
  ELSE CompressBlocks(sm3_compress_optimized(state, Bytes(data, off, SM3_BLOCK_SIZE)),
                      data, off + SM3_BLOCK_SIZE, n - 1)

\* memcpy(dst + at, src + from, n) on a 64-byte buffer
Memcpy64(dst, at, src, from, n) ==
  [i \in 1..SM3_BLOCK_SIZE |->
     IF i > at /\ i <= at + n THEN src[from + (i - at)] ELSE dst[i]]

\* a variant that waits for one byte more than the buffer has room for
UpdateFillsBufferLate(left, len) == left # 0 /\ len > SM3_BLOCK_SIZE - left

\* whether sm3_update first completes the partially filled buffer
UpdateFillsBuffer(left, len) == left # 0 /\ len >= SM3_BLOCK_SIZE - left

\* a variant that appends the tail at the start of the buffer
BufferOffsetZero(first, left) == 0

\* left after the first step: where the bytes that remain go in the buffer
BufferOffset(first, left) == IF first THEN 0 ELSE left

sm3_update(ctx, data) ==
  LET len   == Len(data)
      left  == ctx.count % SM3_BLOCK_SIZE
      fill  == SM3_BLOCK_SIZE - left
      first == UpdateFillsBuffer(left, len)
      buf1  == IF first THEN Memcpy64(ctx.buffer, left, data, 0, fill)
               ELSE ctx.buffer
      st1   == IF first THEN sm3_compress_optimized(ctx.state, buf1)
               ELSE ctx.state
      off1  == IF first THEN fill ELSE 0
      left1 == BufferOffset(first, left)
      nblk  == (len - off1) \div SM3_BLOCK_SIZE
      off2  == off1 + (nblk * SM3_BLOCK_SIZE)
      rest  == len - off2
  IN [state  |-> CompressBlocks(st1, data, off1, nblk),
      count  |-> ctx.count + len,
      buffer |-> IF rest > 0 THEN Memcpy64(buf1, left1, data, off2, rest)
                 ELSE buf1]

\* pad_len of sm3_final
PadLen(left) == IF left < 56 THEN 56 - left ELSE 120 - left

\* the padding[0 .. pad_len + 8) that sm3_final feeds to sm3_update
FinalPadding(count) ==
  LET pad_len == PadLen(count % SM3_BLOCK_SIZE)
  IN [i \in 1..(pad_len + 8) |->
        IF i = 1 THEN 128
        ELSE IF i <= pad_len THEN 0
        ELSE ByteOfShift(count * 8, 56 - ((i - pad_len - 1) * 8))]

\* the digest: state[0..7] written big-endian
StateToDigest(state) ==
  [i \in 1..SM3_DIGEST_SIZE |->
     StoreBE32(state[((i - 1) \div 4) + 1])[((i - 1) % 4) + 1]]

\* the context sm3_final leaves behind, and the digest it writes
sm3_final_ctx(ctx) == sm3_update(ctx, FinalPadding(ctx.count))

sm3_final(ctx) == StateToDigest(sm3_final_ctx(ctx).state)

sm3_hash(data) == sm3_final(sm3_update(sm3_init, data))

(***************************************************************************)
(* Length extension (project4/src/length_extension.c)                      *)
(***************************************************************************)
\* sizeof(padding) in sm3_length_extension_attack
PADDING_BUF_SIZE == 128

\* padding_len without the step that turns 64 zero-bytes-and-more into 0
sm3_padding_len_unreduced(message_len) ==
  (SM3_BLOCK_SIZE - ((message_len + 9) % SM3_BLOCK_SIZE)) + 9

\* padding_len computed by sm3_padding
sm3_padding_len(message_len) ==
  LET p == SM3_BLOCK_SIZE - ((message_len + 9) % SM3_BLOCK_SIZE)
  IN (IF p = SM3_BLOCK_SIZE THEN 0 ELSE p) + 9

\* sm3_padding: the bytes written to padding[] (<<>> when the function
\* returns 0 because the buffer is too small)
sm3_padding(message_len, max_padding_len) ==
  LET padding_len == sm3_padding_len(message_len)
  IN IF padding_len > max_padding_len THEN <<>>
     ELSE [i \in 1..padding_len |->
             IF i = 1 THEN 128
             ELSE IF i <= padding_len - 8 THEN 0
             ELSE ByteOfShift(message_len * 8, 56 - ((i - (padding_len - 8) - 1) * 8))]

extract_sm3_state(hash) == [i \in 1..8 |-> LoadBE32(hash, 4 * (i - 1))]

\* a variant that forgets the 8-byte length field
padded_length_no_length_field(original_length) ==
  original_length + 1
    + ((SM3_BLOCK_SIZE - ((original_length + 9) % SM3_BLOCK_SIZE)) % SM3_BLOCK_SIZE)

\* padded_length of sm3_continue_from_state
padded_length(original_length) ==
  original_length + 1
    + ((SM3_BLOCK_SIZE - ((original_length + 9) % SM3_BLOCK_SIZE)) % SM3_BLOCK_SIZE)
    + 8

\* ctx.buffer is never initialised there: its bytes hold whatever the
\* stack held, here the byte stack_byte
sm3_continue_from_state(initial_state, additional_data, original_length, stack_byte) ==
  sm3_final(sm3_update([state  |-> initial_state,
                        count  |-> padded_length(original_length),
                        buffer |-> [i \in 1..SM3_BLOCK_SIZE |-> stack_byte]],
                       additional_data))

\* result of sm3_length_extension_attack: the return value, the bytes
\* written to extended_message and the bytes written to extended_hash
sm3_length_extension_attack(known_hash, original_length, additional_data, stack_byte) ==
  LET padding == sm3_padding(original_length, PADDING_BUF_SIZE)
  IN IF Len(padding) = 0
     THEN [ret |-> 0, extended_message |-> <<>>, extended_hash |-> <<>>]
     ELSE [ret |-> Len(padding) + Len(additional_data),
           extended_message |-> padding \o additional_data,
           extended_hash |->
             sm3_continue_from_state(extract_sm3_state(known_hash),
                                     additional_data, original_length, stack_byte)]

(***************************************************************************)
(* Table-driven SM3 (project4/src/sm3_optimized.c).  The four lookup       *)
(* tables are declared static const with empty initialisers, so they hold  *)
(* zeros; sm3_optimized_init is the only code that would fill them.  The   *)
(* flag init tells whether the tables hold what sm3_optimized_init writes  *)
(* (TRUE) or their declared contents (FALSE).                              *)
(***************************************************************************)
\* (input & 0xFF) << (byte_pos * 8)
ByteAtPos(input, byte_pos) ==
  IF byte_pos = 0 THEN <<0, input>>
  ELSE IF byte_pos = 1 THEN <<0, input * 256>>
  ELSE IF byte_pos = 2 THEN <<input, 0>>
  ELSE <<input * 256, 0>>

\* (x >> (byte_pos * 8)) & 0xFF
ByteOfWord(x, byte_pos) == StoreBE32(x)[4 - byte_pos]

\* y = 0x55555555 and z = 0xAAAAAAAA of sm3_optimized_init
InitY == <<21845, 21845>>

InitZ == <<43690, 43690>>

\* ff_table_0_15[byte_pos][input] and gg_table_0_15[byte_pos][input]
table_0_15(init, byte_pos, input) ==
  IF init
  THEN WOr(WAnd(ByteAtPos(input, byte_pos), InitY),
           WAnd(WNot(ByteAtPos(input, byte_pos)), InitZ))
  ELSE <<0, 0>>

\* ff_table_16_63[byte_pos][input] and gg_table_16_63[byte_pos][input]
table_16_63(init, byte_pos, input) ==
  IF init THEN WXor(WXor(ByteAtPos(input, byte_pos), InitY), InitZ)
  ELSE <<0, 0>>

\* ff_optimized and gg_optimized have the same body over tables with the
\* same contents; y and z are parameters that the body never reads
ff_optimized(x, y, z, j, init) ==
  IF j <= 15
  THEN WOr(WOr(table_0_15(init, 0, ByteOfWord(x, 0)),
               table_0_15(init, 1, ByteOfWord(x, 1))),
           WOr(table_0_15(init, 2, ByteOfWord(x, 2)),
               table_0_15(init, 3, ByteOfWord(x, 3))))
  ELSE WOr(WOr(table_16_63(init, 0, ByteOfWord(x, 0)),
               table_16_63(init, 1, ByteOfWord(x, 1))),
           WOr(table_16_63(init, 2, ByteOfWord(x, 2)),
               table_16_63(init, 3, ByteOfWord(x, 3))))

gg_optimized(x, y, z, j, init) == ff_optimized(x, y, z, j, init)

\* w[16..67] of sm3_message_expansion_optimized; w1[j] = w[j] ^ w[j + 4] is
\* formed where it is used, in RoundStep
RECURSIVE sm3_message_expansion_optimized(_)
sm3_message_expansion_optimized(w) ==
  IF Len(w) >= 68 THEN w
  ELSE sm3_message_expansion_optimized(Append(w, ExpandWord(w, Len(w))))

\* both round loops of the three-argument sm3_compress_optimized
RECURSIVE TableRounds(_, _, _, _)
TableRounds(v, w, j, init) ==
  IF j >= 64 \/ Len(v) # 8 THEN v
  ELSE TableRounds(RoundStep(v, w, j,
                             ff_optimized(v[1], v[2], v[3], j, init),
                             gg_optimized(v[5], v[6], v[7], j, init),
                             ROTL32(T(j), j % 32)),
                   w, j + 1, init)

\* load a block, expand it, compress it: the three steps sm3_hash_optimized
\* performs on every block
CompressTable(state, block, init) ==
  FeedForward(state,
              TableRounds(state, sm3_message_expansion_optimized(LoadBlock(block)),
                          0, init))

\* for (i = 0; i < blocks; i++) over the n whole blocks from offset off
RECURSIVE FullBlocksTable(_, _, _, _, _)
FullBlocksTable(state, message, off, n, init) ==
  IF n <= 0 \/ Len(state) # 8 THEN state
  ELSE FullBlocksTable(CompressTable(state, Bytes(message, off, SM3_BLOCK_SIZE), init),
                       message, off + SM3_BLOCK_SIZE, n - 1, init)

\* block after memcpy of the tail, 0x80 and the zero fill
TailBlock(message, from, remaining) ==
  [i \in 1..SM3_BLOCK_SIZE |->
     IF i <= remaining THEN message[from + i]
     ELSE IF i = remaining + 1 THEN 128 ELSE 0]

\* ((uint64_t*)block)[7] = htobe64(bit_len)
WithBitLength(block, len) ==
  [i \in 1..SM3_BLOCK_SIZE |->
     IF i <= 56 THEN block[i] ELSE ByteOfShift(len * 8, 8 * (SM3_BLOCK_SIZE - i))]

sm3_hash_optimized(message, init) ==
  LET len       == Len(message)
      blocks    == len \div SM3_BLOCK_SIZE
      remaining == len % SM3_BLOCK_SIZE
      st1       == FullBlocksTable(sm3_iv, message, 0, blocks, init)
      block     == TailBlock(message, blocks * SM3_BLOCK_SIZE, remaining)
      st2       == IF remaining >= 56 THEN CompressTable(st1, block, init) ELSE st1
      last      == IF remaining >= 56 THEN [i \in 1..SM3_BLOCK_SIZE |-> 0] ELSE block
  IN StateToDigest(IF remaining > 0 \/ len = 0
                   THEN CompressTable(st2, WithBitLength(last, len), init)
                   ELSE st1)

(***************************************************************************)
(* SM4 (project1/src/sm4.h).  The file that defines sm4_sbox, sm4_fk,      *)
(* sm4_ck, sm4_rotl, sm4_tau, sm4_l, sm4_l_prime, sm4_setkey_enc and       *)
(* sm4_encrypt_basic is not among the sources; they are written here from  *)
(* the specification of the cipher (the S-box is the table that            *)
(* sm4_aesni.c carries, FK the constants that sm4_gfni.c carries).         *)
(***************************************************************************)
SM4_BLOCK_SIZE == 16

SM4_ROUNDS == 32

sm4_sbox ==
  <<
    214, 144, 233, 254, 204, 225, 61, 183, 22, 182, 20, 194, 40, 251, 44, 5,
    43, 103, 154, 118, 42, 190, 4, 195, 170, 68, 19, 38, 73, 134, 6, 153,
    156, 66, 80, 244, 145, 239, 152, 122, 51, 84, 11, 67, 237, 207, 172, 98,
    228, 179, 28, 169, 201, 8, 232, 149, 128, 223, 148, 250, 117, 143, 63, 166,
    71, 7, 167, 252, 243, 115, 23, 186, 131, 89, 60, 25, 230, 133, 79, 168,
    104, 107, 129, 178, 113, 100, 218, 139, 248, 235, 15, 75, 112, 86, 157, 53,
    30, 36, 14, 94, 99, 88, 209, 162, 37, 34, 124, 59, 1, 33, 120, 135,
    212, 0, 70, 87, 159, 211, 39, 82, 76, 54, 2, 231, 160, 196, 200, 158,
    234, 191, 138, 210, 64, 199, 56, 181, 163, 247, 242, 206, 249, 97, 21, 161,
    224, 174, 93, 164, 155, 52, 26, 85, 173, 147, 50, 48, 245, 140, 177, 227,
    29, 246, 226, 46, 130, 102, 202, 96, 192, 41, 35, 171, 13, 83, 78, 111,
    213, 219, 55, 69, 222, 253, 142, 47, 3, 255, 106, 114, 109, 108, 91, 81,
    141, 27, 175, 146, 187, 221, 188, 127, 17, 217, 92, 65, 31, 16, 90, 216,
    10, 193, 49, 136, 165, 205, 123, 189, 45, 116, 208, 18, 184, 229, 180, 176,
    137, 105, 151, 74, 12, 150, 119, 126, 101, 185, 241, 9, 197, 110, 198, 132,
    24, 240, 125, 236, 58, 220, 77, 32, 121, 238, 95, 62, 215, 203, 57, 72 >>

sm4_fk ==
  <<<<41905, 47814>>, <<22186, 13136>>, <<26493, 37271>>, <<45680, 8924>>>>

sm4_ck ==
  <<
    <<7, 3605>>, <<7203, 10801>>, <<14399, 17997>>, <<21595, 25193>>,
    <<28791, 32389>>, <<35987, 39585>>, <<43183, 46781>>, <<50379, 53977>>,
    <<57575, 61173>>, <<64515, 2577>>, <<6175, 9773>>, <<13371, 16969>>,
    <<20567, 24165>>, <<27763, 31361>>, <<34959, 38557>>, <<42155, 45753>>,
    <<49351, 52949>>, <<56547, 60145>>, <<63743, 1549>>, <<5147, 8745>>,
    <<12343, 15941>>, <<19539, 23137>>, <<26735, 30333>>, <<33931, 37529>>,
    <<41127, 44725>>, <<48323, 51921>>, <<55519, 59117>>, <<62715, 521>>,
    <<4119, 7717>>, <<11315, 14913>>, <<18511, 22109>>, <<25707, 29305>> >>

sm4_rotl(x, n) == ROTL32(x, n)

\* byte-wise S-box substitution
sm4_tau(a) ==
  <<(sm4_sbox[(a[1] \div 256) + 1] * 256) + sm4_sbox[(a[1] % 256) + 1],
    (sm4_sbox[(a[2] \div 256) + 1] * 256) + sm4_sbox[(a[2] % 256) + 1]>>

sm4_l(b) ==
  WXor(WXor(WXor(b, sm4_rotl(b, 2)), WXor(sm4_rotl(b, 10), sm4_rotl(b, 18))),
       sm4_rotl(b, 24))

sm4_l_prime(b) == WXor(WXor(b, sm4_rotl(b, 13)), sm4_rotl(b, 23))

\* the four big-endian words of a 16-byte block
LoadWords(bytes) == [i \in 1..4 |-> LoadBE32(bytes, 4 * (i - 1))]

\* the 16 bytes of four words, each big-endian
StoreWords(x) ==
  StoreBE32(x[1]) \o StoreBE32(x[2]) \o StoreBE32(x[3]) \o StoreBE32(x[4])

\* rk[i] = mk[0] ^ L'(tau(mk[1] ^ mk[2] ^ mk[3] ^ CK[i])), mk shifted by one
RECURSIVE KeyRounds(_, _)
KeyRounds(mk, rk) ==
  IF Len(rk) >= SM4_ROUNDS THEN rk
  ELSE LET r == WXor(mk[1],
                     sm4_l_prime(sm4_tau(WXor(WXor(mk[2], mk[3]),
                                              WXor(mk[4], sm4_ck[Len(rk) + 1])))))
       IN KeyRounds(<<mk[2], mk[3], mk[4], r>>, Append(rk, r))

\* the round keys rk[0..31]
sm4_setkey_enc(key) ==
  KeyRounds([i \in 1..4 |-> WXor(LoadWords(key)[i], sm4_fk[i])], <<>>)

\* 32 rounds: x0 ^= L(tau(x1 ^ x2 ^ x3 ^ rk[i])), then the words rotate
RECURSIVE EncryptRoundsBasic(_, _, _)
EncryptRoundsBasic(x, rk, i) ==
  IF i >= SM4_ROUNDS \/ Len(x) # 4 THEN x
  ELSE EncryptRoundsBasic(
         <<x[2], x[3], x[4],
           WXor(x[1], sm4_l(sm4_tau(WXor(WXor(x[2], x[3]), WXor(x[4], rk[i + 1])))))>>,
         rk, i + 1)

\* final reversal of the word order
ReverseWords(x) == <<x[4], x[3], x[2], x[1]>>

sm4_encrypt_basic(rk, input) ==
  StoreWords(ReverseWords(EncryptRoundsBasic(LoadWords(input), rk, 0)))

(***************************************************************************)
(* Table-driven SM4 (project1/src/sm4_optimized.c).  sm4_init_tables       *)
(* fills the tables three times over; the last loop decides what they      *)
(* hold, and every caller of sm4_t_optimized runs sm4_init_tables first.   *)
(***************************************************************************)
\* t = sm4_sbox[i]; t = sm4_l(t << 24); sm4_t0[i] = t
sm4_t0(i) == sm4_l(<<sm4_sbox[i + 1] * 256, 0>>)

sm4_t1(i) == sm4_rotl(sm4_t0(i), 8)

sm4_t2(i) == sm4_rotl(sm4_t0(i), 16)

sm4_t3(i) == sm4_rotl(sm4_t0(i), 24)

sm4_t_optimized(x) ==
  WXor(WXor(sm4_t0(x[1] \div 256), sm4_t1(x[1] % 256)),
       WXor(sm4_t2(x[2] \div 256), sm4_t3(x[2] % 256)))

RECURSIVE EncryptRoundsOptimized(_, _, _)
EncryptRoundsOptimized(x, rk, i) ==
  IF i >= SM4_ROUNDS \/ Len(x) # 4 THEN x
  ELSE EncryptRoundsOptimized(
         <<x[2], x[3], x[4],
           WXor(x[1], sm4_t_optimized(WXor(WXor(x[2], x[3]), WXor(x[4], rk[i + 1]))))>>,
         rk, i + 1)

sm4_encrypt_optimized(rk, input) ==
  StoreWords(ReverseWords(EncryptRoundsOptimized(LoadWords(input), rk, 0)))

\* decryption is the same algorithm, run on reversed round keys
sm4_decrypt_optimized(rk, input) == sm4_encrypt_optimized(rk, input)

\* ctx->rk[0..31] after the static key schedule of sm4_optimized.c
sm4_setkey_enc_optimized(key) ==
  KeyRounds([i \in 1..4 |-> WXor(LoadWords(key)[i], sm4_fk[i])], <<>>)

sm4_setkey_enc_opt(key) == sm4_setkey_enc_optimized(key)

\* ctx->rk[i] = temp_rk[SM4_ROUNDS - 1 - i]
ReverseRoundKeys(temp_rk) ==
  SubSeq([i \in 1..SM4_ROUNDS |-> temp_rk[(SM4_ROUNDS + 1) - i]], 1, SM4_ROUNDS)

(***************************************************************************)
(* The tables while sm4_init_tables runs.  The tables are static arrays,   *)
(* zero until written.  The first loop stores values that are not the      *)
(* final ones; the second and the third loop end each iteration with the   *)
(* final values.  A loop is taken in TableSteps steps, each over a run of  *)
(* consecutive indices; the state records, per run, what was stored last.  *)
(***************************************************************************)
TableSteps == 2

RoundsPerStep == 16

\* the run of indices that table index b belongs to
RunOf(b) == ((b * TableSteps) \div 256) + 1

\* (t << 24) | ((t & 0xFF0000) >> 8) | ((t & 0xFF00) << 8) | (t >> 24)
SwapBytes(t) ==
  <<((t[2] % 256) * 256) + (t[2] \div 256), ((t[1] % 256) * 256) + (t[1] \div 256)>>

\* sm4_t0[i] as the first loop leaves it: temp = sm4_sbox[i];
\* temp ^ rotl(temp, 2) ^ rotl(temp, 10) ^ rotl(temp, 18) ^ rotl(temp, 24),
\* then the bytes swapped
FirstLoopT0(i) == SwapBytes(sm4_l(<<0, sm4_sbox[i + 1]>>))

\* sm4_t0[i] given what was stored last to the run of i
StoredT0(i, stored) ==
  IF stored = "zero" THEN <<0, 0>>
  ELSE IF stored = "first" THEN FirstLoopT0(i)
  ELSE sm4_t0(i)

\* sm4_tk[i]: every loop stores sm4_rotl(sm4_t0[i], 8 k) to table k
StoredT(k, i, tables) ==
  IF k = 0 THEN StoredT0(i, tables[RunOf(i)])
  ELSE sm4_rotl(StoredT0(i, tables[RunOf(i)]), 8 * k)

\* sm4_t_optimized(x) on the tables as they are
TOptimizedOn(tables, x) ==
  WXor(WXor(StoredT(0, x[1] \div 256, tables), StoredT(1, x[1] % 256, tables)),
       WXor(StoredT(2, x[2] \div 256, tables), StoredT(3, x[2] % 256, tables)))

\* rounds i .. last - 1 of sm4_encrypt_optimized on the tables as they are
RECURSIVE RoundsOn(_, _, _, _, _)
RoundsOn(tables, x, rk, i, last) ==
  IF i >= last \/ Len(x) # 4 THEN x
  ELSE RoundsOn(tables,
                <<x[2], x[3], x[4],
                  WXor(x[1], TOptimizedOn(tables, WXor(WXor(x[2], x[3]),
                                                       WXor(x[4], rk[i + 1]))))>>,
                rk, i + 1, last)

\* a decryption schedule that keeps the encryption order
sm4_setkey_dec_opt_unreversed(key) == sm4_setkey_enc_optimized(key)

sm4_setkey_dec_opt(key) == ReverseRoundKeys(sm4_setkey_enc_optimized(key))

(***************************************************************************)
(* SM4-GCM (project1/src/sm4_gcm.c), as built without __PCLMUL__, where    *)
(* gf128_mul_clmul is gf128_mul.                                           *)
(***************************************************************************)
SM4_GCM_ENCRYPT == 1

SM4_GCM_DECRYPT == 0

Zero16 == <<0, 0, 0, 0, 0, 0, 0, 0, 0, 0, 0, 0, 0, 0, 0, 0>>

\* x ^ y for every pair of bytes, computed once: row x + 1, column y + 1
XorRow(x) == SubSeq([y \in 1..256 |-> Xor8(x, y - 1)], 1, 256)

XorT == SubSeq([x \in 1..256 |-> XorRow(x - 1)], 1, 256)

\* a[k] ^ b[k] for the 16 bytes of two blocks
XorBlock(a, b) ==
  <<XorT[a[1] + 1][b[1] + 1], XorT[a[2] + 1][b[2] + 1],
    XorT[a[3] + 1][b[3] + 1], XorT[a[4] + 1][b[4] + 1],
    XorT[a[5] + 1][b[5] + 1], XorT[a[6] + 1][b[6] + 1],
    XorT[a[7] + 1][b[7] + 1], XorT[a[8] + 1][b[8] + 1],
    XorT[a[9] + 1][b[9] + 1], XorT[a[10] + 1][b[10] + 1],
    XorT[a[11] + 1][b[11] + 1], XorT[a[12] + 1][b[12] + 1],
    XorT[a[13] + 1][b[13] + 1], XorT[a[14] + 1][b[14] + 1],
    XorT[a[15] + 1][b[15] + 1], XorT[a[16] + 1][b[16] + 1]>>

\* the whole counter as a 128-bit big-endian integer, plus one
RECURSIVE gcm_increment_counter_128(_)
gcm_increment_counter_128(counter) ==
  IF Len(counter) = 0 THEN <<>>
  ELSE IF counter[Len(counter)] < 255
  THEN SubSeq(counter, 1, Len(counter) - 1) \o <<counter[Len(counter)] + 1>>
  ELSE gcm_increment_counter_128(SubSeq(counter, 1, Len(counter) - 1)) \o <<0>>

\* a variant that leaves the counter as it is
gcm_counter_kept(counter) == counter

\* the rightmost 32 bits of the counter, as a big-endian integer, plus one
gcm_increment_counter(counter) ==
  SubSeq(counter, 1, 12) \o StoreBE32(WAdd(LoadBE32(counter, 12), <<0, 1>>))

\* one iteration's update of v in gf128_mul: v[k] = (v[k] >> 1) |
\* ((v[k-1] & 1) << 7) for k = 15 .. 1, v[0] >>= 1, and v[0] ^= 0xE1 when
\* the bit shifted out of v[15] was 1
MulStepV(v) ==
  <<IF v[16] % 2 = 1 THEN XorT[(v[1] \div 2) + 1][226] ELSE v[1] \div 2,
    (v[2] \div 2) + ((v[1] % 2) * 128), (v[3] \div 2) + ((v[2] % 2) * 128),
    (v[4] \div 2) + ((v[3] % 2) * 128), (v[5] \div 2) + ((v[4] % 2) * 128),
    (v[6] \div 2) + ((v[5] % 2) * 128), (v[7] \div 2) + ((v[6] % 2) * 128),
    (v[8] \div 2) + ((v[7] % 2) * 128), (v[9] \div 2) + ((v[8] % 2) * 128),
    (v[10] \div 2) + ((v[9] % 2) * 128), (v[11] \div 2) + ((v[10] % 2) * 128),
    (v[12] \div 2) + ((v[11] % 2) * 128), (v[13] \div 2) + ((v[12] % 2) * 128),
    (v[14] \div 2) + ((v[13] % 2) * 128), (v[15] \div 2) + ((v[14] % 2) * 128),
    (v[16] \div 2) + ((v[15] % 2) * 128)>>

\* a[i] & (0x80 >> j), for bit n = 8 i + j
BitOf(a, n) == (a[(n \div 8) + 1] \div Pow2(7 - (n % 8))) % 2

\* the 128 iterations of the double loop of gf128_mul, from bit n on
RECURSIVE MulLoop(_, _, _, _)
MulLoop(a, z, v, n) ==
  IF n >= 128 \/ Len(z) # 16 \/ Len(v) # 16 THEN z
  ELSE MulLoop(a, IF BitOf(a, n) = 1 THEN XorBlock(z, v) ELSE z, MulStepV(v), n + 1)

gf128_mul(a, b) == MulLoop(a, Zero16, b, 0)

\* a GHASH that takes every block to be zero
PaddedBlockZero(data, i) == Zero16

\* block: 16 bytes of data from offset i, zero-padded
PaddedBlock(data, i) ==
  [k \in 1..16 |-> IF i + k <= Len(data) THEN data[i + k] ELSE 0]

\* for (i = 0; i < len; i += 16) { state ^= block; state = state * H }
RECURSIVE ghash_from(_, _, _, _)
ghash_from(h, data, i, ghash_state) ==
  IF i >= Len(data) \/ Len(ghash_state) # 16 THEN ghash_state
  ELSE ghash_from(h, data, i + 16,
                  gf128_mul(XorBlock(ghash_state, PaddedBlock(data, i)), h))

ghash(h, data, ghash_state) == ghash_from(h, data, 0, ghash_state)

\* sm4_gcm_init writes sm4_ctx, h, ghash_state and the two lengths of *ctx
\* and leaves j0, counter and mode as they were
sm4_gcm_init(ctx, key) ==
  [ctx EXCEPT !.rk = sm4_setkey_enc(key),
              !.h = sm4_encrypt_basic(sm4_setkey_enc(key), Zero16),
              !.ghash_state = Zero16,
              !.aad_len = 0,
              !.ciphertext_len = 0]

\* len_block of sm4_gcm_starts: zeros, then the IV length in bits
IvLenBlock(iv_len) == [k \in 1..16 |-> IF k <= 8 THEN 0 ELSE ByteOfShift(iv_len * 8, 8 * (16 - k))]

\* J0 of sm4_gcm_starts
ComputeJ0(h, iv) ==
  IF Len(iv) = 12 THEN iv \o <<0, 0, 0, 1>>
  ELSE ghash(h, IvLenBlock(Len(iv)), ghash(h, iv, Zero16))

sm4_gcm_starts(ctx, mode, iv) ==
  [ctx EXCEPT !.mode = mode,
              !.j0 = ComputeJ0(ctx.h, iv),
              !.counter = ComputeJ0(ctx.h, iv),
              !.ghash_state = Zero16,
              !.aad_len = 0,
              !.ciphertext_len = 0]

sm4_gcm_update_ad(ctx, aad) ==
  IF Len(aad) = 0 THEN ctx
  ELSE [ctx EXCEPT !.aad_len = ctx.aad_len + Len(aad),
                   !.ghash_state = ghash(ctx.h, aad, ctx.ghash_state)]

\* output[i + j] = input[i + j] ^ keystream[j] for the block at offset i
XorKeystream(input, i, keystream) ==
  [j \in 1..(IF Len(input) - i < 16 THEN Len(input) - i ELSE 16) |->
     Xor8(input[i + j], keystream[j])]

\* a GHASH over the output of sm4_gcm_update in both modes
HashedBlockOutput(mode, input, i, out_block) == PaddedBlock(out_block, 0)

\* the block sm4_gcm_update hands to GHASH: the ciphertext block, which is
\* the output when encrypting and the input when decrypting
HashedBlock(mode, input, i, out_block) ==
  IF mode = SM4_GCM_ENCRYPT THEN PaddedBlock(out_block, 0)
  ELSE PaddedBlock(input, i)

\* the loop of sm4_gcm_update from offset i; acc = [ctx, output]
RECURSIVE UpdateLoop(_, _, _)
UpdateLoop(acc, input, i) ==
  IF i >= Len(input) \/ Len(acc.ctx.counter) # 16 THEN acc
  ELSE LET counter   == gcm_increment_counter(acc.ctx.counter)
           keystream == sm4_encrypt_basic(acc.ctx.rk, counter)
           out_block == XorKeystream(input, i, keystream)
           hashed    == SubSeq(HashedBlock(acc.ctx.mode, input, i, out_block), 1, 16)
       IN UpdateLoop(
            [ctx    |-> [acc.ctx EXCEPT
                           !.counter = counter,
                           !.ghash_state = ghash(acc.ctx.h, hashed, acc.ctx.ghash_state)],
             output |-> acc.output \o out_block],
            input, i + 16)

\* a variant that sets ciphertext_len to the length of the call
sm4_gcm_update_len_set(ctx, input) ==
  LET acc == UpdateLoop([ctx |-> ctx, output |-> <<>>], input, 0)
  IN [ctx    |-> [acc.ctx EXCEPT !.ciphertext_len = Len(input)],
      output |-> acc.output]

\* sm4_gcm_update: the context it leaves and the bytes it writes to output
sm4_gcm_update(ctx, input) ==
  LET acc == UpdateLoop([ctx |-> ctx, output |-> <<>>], input, 0)
  IN [ctx    |-> [acc.ctx EXCEPT !.ciphertext_len = ctx.ciphertext_len + Len(input)],
      output |-> acc.output]

\* len_block of sm4_gcm_finish: the bit lengths of AAD and ciphertext
LenBlock(aad_len, ciphertext_len) ==
  [k \in 1..16 |-> IF k <= 8 THEN ByteOfShift(aad_len * 8, 8 * (8 - k))
                   ELSE ByteOfShift(ciphertext_len * 8, 8 * (16 - k))]

\* how many tag bytes sm4_gcm_finish writes: i < 16 && i < tag_len
TagBytes(tag_len) == IF tag_len < 16 THEN tag_len ELSE 16

\* a variant that encrypts J0 in place, into ctx->j0
sm4_gcm_finish_masking_in_place(ctx, tag_len) ==
  LET state == ghash(ctx.h, LenBlock(ctx.aad_len, ctx.ciphertext_len), ctx.ghash_state)
      full  == XorBlock(state, sm4_encrypt_basic(ctx.rk, ctx.j0))
  IN [ctx |-> [ctx EXCEPT !.ghash_state = state,
                          !.j0 = sm4_encrypt_basic(ctx.rk, ctx.j0)],
      tag |-> SubSeq(full, 1, TagBytes(tag_len))]

\* sm4_gcm_finish: the context it leaves and the bytes it writes to tag
sm4_gcm_finish(ctx, tag_len) ==
  LET state == ghash(ctx.h, LenBlock(ctx.aad_len, ctx.ciphertext_len), ctx.ghash_state)
      full  == XorBlock(state, sm4_encrypt_basic(ctx.rk, ctx.j0))
  IN [ctx |-> [ctx EXCEPT !.ghash_state = state],
      tag |-> SubSeq(full, 1, TagBytes(tag_len))]

\* an sm4_gcm_context_t on the stack before sm4_gcm_init: every byte of it
\* is whatever the stack held
StackContext(stack_byte) ==
  [rk |-> <<>>, h |-> [k \in 1..16 |-> stack_byte], j0 |-> [k \in 1..16 |-> stack_byte],
   counter |-> [k \in 1..16 |-> stack_byte], ghash_state |-> [k \in 1..16 |-> stack_byte],
   aad_len |-> stack_byte, ciphertext_len |-> stack_byte, mode |-> stack_byte]

\* sm4_gcm_encrypt: return value, ciphertext and tag.  Its context is a
\* fresh stack object; sm4_gcm_init and sm4_gcm_starts write every field of
\* it before any is read, so what the stack held does not matter.
sm4_gcm_encrypt(key, iv, aad, plaintext, tag_len) ==
  LET c1 == sm4_gcm_init(StackContext(0), key)
      c2 == sm4_gcm_starts(c1, SM4_GCM_ENCRYPT, iv)
      c3 == sm4_gcm_update_ad(c2, aad)
      u  == sm4_gcm_update(c3, plaintext)
  IN [ret |-> 0, ciphertext |-> u.output, tag |-> sm4_gcm_finish(u.ctx, tag_len).tag]

\* a comparison of the first tag byte only
TagDiffFirstByte(tag, computed_tag, tag_len) ==
  IF tag_len > 0 /\ tag[1] # computed_tag[1] THEN 1 ELSE 0

\* diff |= tag[i] ^ computed_tag[i] for i < tag_len
TagDiff(tag, computed_tag, tag_len) ==
  IF \E i \in 1..tag_len : tag[i] # computed_tag[i] THEN 1 ELSE 0

(***************************************************************************)
(* The vectorized SM4-GCM path (project1/src/sm4_gcm_simd.c).  The file    *)
(* compiles its own functions under #ifdef __AVX2__ and otherwise defines  *)
(* sm4_gcm_encrypt_simd to be sm4_gcm_encrypt.  The block encryptions it   *)
(* calls, sm4_encrypt_block_optimized and sm4_encrypt_blocks_simd, are SM4 *)
(* block encryptions with the round keys of the context; the carry-less    *)
(* multiply-and-reduce sequences stand for the multiplication gf128_mul.   *)
(***************************************************************************)
\* gcm_increment_counter applied n times
RECURSIVE AdvanceCounter(_, _)
AdvanceCounter(counter, n) ==
  IF n = 0 \/ Len(counter) # 16 THEN counter
  ELSE AdvanceCounter(gcm_increment_counter(counter), n - 1)

\* keystream[j] of sm4_gcm_ctr_parallel: the encryption of counters[j],
\* which is the counter incremented k < j times
ParallelKeystream(rk, counter, j) ==
  sm4_encrypt_basic(rk, AdvanceCounter(counter, j))

\* the XOR loop of sm4_gcm_ctr_parallel from block j on: whole blocks of
\* input ^ keystream[j], of which the bytes inside the buffer are kept
RECURSIVE ParallelXor(_, _, _, _, _, _)
ParallelXor(rk, counter, input, off, j, remaining) ==
  IF j >= remaining THEN <<>>
  ELSE XorKeystream(input, off + (16 * j), ParallelKeystream(rk, counter, j))
         \o ParallelXor(rk, counter, input, off, j + 1, remaining)

\* sm4_gcm_ctr_parallel on `remaining` blocks of input from byte offset off:
\* the counter it leaves and the bytes it writes inside the output buffer
sm4_gcm_ctr_parallel(rk, counter, input, off, remaining) ==
  [counter |-> AdvanceCounter(counter, remaining),
   output  |-> ParallelXor(rk, counter, input, off, 0, remaining)]

\* bytes sm4_gcm_ctr_parallel stores past the end of the output buffer: it
\* stores whole 16-byte blocks
OutputOverrun(length) == (16 * ((length + 15) \div 16)) - length

\* h1 .. h8 of ghash_clmul_init
ghash_clmul_init(h) ==
  LET h2 == gf128_mul(h, h)
      h4 == gf128_mul(h2, h2)
      h3 == gf128_mul(h2, h)
  IN <<h, h2, h3, h4, gf128_mul(h4, h), gf128_mul(h4, h2), gf128_mul(h4, h3),
       gf128_mul(h4, h4)>>

\* ghash_8blocks_clmul: (state ^ blocks[0]) * h8 ^ blocks[1] * h7 ^ .. ^
\* blocks[7] * h1
RECURSIVE Sum8(_, _, _, _)
Sum8(ghash_ctx, blocks, i, acc) ==
  IF i > 7 \/ Len(acc) # 16 THEN acc
  ELSE Sum8(ghash_ctx, blocks, i + 1,
            XorBlock(acc, gf128_mul(blocks[i + 1], ghash_ctx[8 - i])))

ghash_8blocks_clmul(ghash_ctx, blocks, state) ==
  Sum8(ghash_ctx, blocks, 1, gf128_mul(XorBlock(state, blocks[1]), ghash_ctx[8]))

\* the loop of process_pending_ghash over fewer than 8 pending blocks
RECURSIVE GhashPending(_, _, _, _)
GhashPending(h, blocks, i, state) ==
  IF i > Len(blocks) \/ Len(state) # 16 THEN state
  ELSE GhashPending(h, blocks, i + 1, ghash(h, blocks[i], state))

process_pending_ghash(ctx) ==
  IF ctx.pending_count = 0 THEN ctx
  ELSE [ctx EXCEPT
          !.base.ghash_state =
             IF ctx.pending_count = 8
             THEN ghash_8blocks_clmul(ctx.ghash_ctx, ctx.pending_blocks, @)
             ELSE GhashPending(ctx.base.h, ctx.pending_blocks, 1, @),
          !.pending_blocks = <<>>,
          !.pending_count = 0]

add_ghash_block(ctx, block) ==
  LET added == [ctx EXCEPT !.pending_blocks = Append(@, block),
                           !.pending_count = @ + 1]
  IN IF added.pending_count = 8 THEN process_pending_ghash(added) ELSE added

sm4_gcm_simd_init(ctx, key) ==
  [ctx EXCEPT !.base = sm4_gcm_init(ctx.base, key),
              !.ghash_ctx = ghash_clmul_init(sm4_gcm_init(ctx.base, key).h),
              !.pending_blocks = <<>>,
              !.pending_count = 0]

\* the inner loop of sm4_gcm_simd_update: the blocks j .. remaining - 1 of
\* the group at block i go to the GHASH batch, zero-padded
RECURSIVE BatchBlocks(_, _, _, _, _)
BatchBlocks(ctx, hashed, i, j, remaining) ==
  IF j >= remaining \/ ctx.pending_count > 8 THEN ctx
  ELSE BatchBlocks(add_ghash_block(ctx, SubSeq(PaddedBlock(hashed, 16 * (i + j)), 1, 16)),
                   hashed, i, j + 1, remaining)

\* the outer loop of sm4_gcm_simd_update from block i on; acc = [ctx, output]
RECURSIVE SimdUpdateLoop(_, _, _, _)
SimdUpdateLoop(acc, input, i, num_blocks) ==
  IF i >= num_blocks \/ acc.ctx.pending_count > 8 THEN acc
  ELSE LET remaining == IF num_blocks - i > 8 THEN 8 ELSE num_blocks - i
           ctr == sm4_gcm_ctr_parallel(acc.ctx.base.rk, acc.ctx.base.counter,
                                       input, 16 * i, remaining)
           output == acc.output \o ctr.output
           hashed == IF acc.ctx.base.mode = SM4_GCM_ENCRYPT THEN output ELSE input
       IN SimdUpdateLoop(
            [ctx |-> BatchBlocks([acc.ctx EXCEPT !.base.counter = ctr.counter],
                                 hashed, i, 0, remaining),
             output |-> output],
            input, i + 8, num_blocks)

\* sm4_gcm_simd_update: the context it leaves and the bytes it writes inside
\* the output buffer
sm4_gcm_simd_update(ctx, input) ==
  IF Len(input) = 0 THEN [ctx |-> ctx, output |-> <<>>]
  ELSE LET acc == SimdUpdateLoop([ctx |-> ctx, output |-> <<>>], input, 0,
                                 (Len(input) + 15) \div 16)
       IN [ctx    |-> [acc.ctx EXCEPT !.base.ciphertext_len = @ + Len(input)],
           output |-> acc.output]

\* sm4_gcm_simd_finish: the context it leaves and the bytes it writes to tag
sm4_gcm_simd_finish(ctx, tag_len) ==
  LET pending == process_pending_ghash(ctx)
      f == sm4_gcm_finish(pending.base, tag_len)
  IN [ctx |-> [pending EXCEPT !.base = f.ctx], tag |-> f.tag]

\* an sm4_gcm_simd_context_t on the stack before sm4_gcm_simd_init
StackSimdContext(stack_byte) ==
  [base |-> StackContext(stack_byte),
   ghash_ctx |-> [k \in 1..8 |-> [n \in 1..16 |-> stack_byte]],
   pending_blocks |-> <<>>,
   pending_count |-> stack_byte]

(***************************************************************************)
(* The Merkle tree (project4/src/merkle_tree.c).  A 32-byte hash is kept   *)
(* as the byte string SM3 is applied to, [sm3 |-> input]: two hashes are   *)
(* equal exactly when their inputs are, SM3 being taken to have no         *)
(* collision among the strings at hand.  A node pointer is the node it     *)
(* points to, or NULL.                                                     *)
(***************************************************************************)
LEAF_PREFIX == 0

NODE_PREFIX == 1

\* int num_threads = 4 of merkle_tree_build
num_threads == 4

NULL == [null |-> TRUE]

\* Hash(0x00 || data)
hash_leaf(data) == [sm3 |-> <<LEAF_PREFIX>> \o data]

\* Hash(0x01 || left_hash || right_hash)
hash_nodes(left_hash, right_hash) == [sm3 |-> <<NODE_PREFIX, left_hash, right_hash>>]

merkle_node_create(hash) ==
  [hash |-> hash, left |-> NULL, right |-> NULL, leaf_count |-> 1, height |-> 0]

\* the parent hash_level_worker creates over nodes[i] and nodes[i + 1]
ParentNode(l, r) ==
  [hash |-> hash_nodes(l.hash, r.hash), left |-> l, right |-> r,
   leaf_count |-> l.leaf_count + r.leaf_count,
   height |-> 1 + (IF l.height > r.height THEN l.height ELSE r.height)]

\* what one iteration of hash_level_worker stores to nodes[i / 2], given the
\* two pointers it loaded; nodes is left alone when nodes[i] is NULL
StoredNode(l, r, old) ==
  IF l # NULL /\ r # NULL THEN ParentNode(l, r)
  ELSE IF l # NULL THEN l
  ELSE old

\* work_per_thread of merkle_tree_build, made even
WorkPerThread(current_count) ==
  LET w == (current_count + num_threads - 1) \div num_threads
  IN 2 * ((w + 1) \div 2)

\* thread_data[t].start_index and .end_index
StartIndex(t, current_count) == t * WorkPerThread(current_count)

EndIndex(t, current_count) ==
  IF (t + 1) * WorkPerThread(current_count) > current_count THEN current_count
  ELSE (t + 1) * WorkPerThread(current_count)

\* hash_level_worker run alone over the indices i, i + 2, .. below end of a
\* level; the slot past an odd level reads as NULL
RECURSIVE WorkerAlone(_, _, _)
WorkerAlone(nodes, i, end) ==
  IF i >= end THEN nodes
  ELSE WorkerAlone(
         [nodes EXCEPT ![(i \div 2) + 1] =
            StoredNode(nodes[i + 1],
                       IF i + 1 < Len(nodes) THEN nodes[i + 2] ELSE NULL, @)],
         i + 2, end)

\* the root merkle_tree_build leaves when each level is hashed by a single
\* worker over the whole level
RECURSIVE SingleWorkerRoot(_)
SingleWorkerRoot(nodes) ==
  IF Len(nodes) <= 1 THEN nodes[1]
  ELSE SingleWorkerRoot(SubSeq(WorkerAlone(nodes, 0, Len(nodes)), 1,
                               (Len(nodes) + 1) \div 2))

\* ceil(log2(leaf_count)) for the leaf counts of the model
CeilLog2(n) == IF n <= 1 THEN 0 ELSE IF n <= 2 THEN 1 ELSE IF n <= 4 THEN 2
               ELSE IF n <= 8 THEN 3 ELSE 4

\* the walk of merkle_tree_generate_inclusion_proof from node current
RECURSIVE ProofWalk(_, _, _)
ProofWalk(current, current_index, proof) ==
  IF current = NULL THEN proof
  ELSE IF current.left = NULL \/ current.right = NULL THEN proof
  ELSE IF current_index < current.left.leaf_count
  THEN ProofWalk(current.left, current_index,
                 [proof EXCEPT !.path = Append(@, current.right.hash),
                               !.directions = Append(@, 1)])
  ELSE ProofWalk(current.right, current_index - current.left.leaf_count,
                 [proof EXCEPT !.path = Append(@, current.left.hash),
                               !.directions = Append(@, 0)])

\* the proof generation without its first test
generate_without_argument_test(tree_root, leaf_count, leaf_index) ==
  ProofWalk(tree_root, leaf_index,
            [path |-> <<>>, directions |-> <<>>, leaf_index |-> leaf_index,
             tree_size |-> leaf_count, allocated |-> CeilLog2(leaf_count)])

\* merkle_tree_generate_inclusion_proof: NULL, or the proof with
\* path_length = Len(path); allocated is the number of path entries malloc'ed
merkle_tree_generate_inclusion_proof(tree_root, leaf_count, leaf_index) ==
  IF leaf_index >= leaf_count \/ tree_root = NULL THEN NULL
  ELSE ProofWalk(tree_root, leaf_index,
                 [path |-> <<>>, directions |-> <<>>, leaf_index |-> leaf_index,
                  tree_size |-> leaf_count, allocated |-> CeilLog2(leaf_count)])

\* the loop of merkle_tree_verify_inclusion_proof from path entry i
RECURSIVE FoldPath(_, _, _)
FoldPath(proof, i, computed_hash) ==
  IF i > Len(proof.path) THEN computed_hash
  ELSE FoldPath(proof, i + 1,
                IF proof.directions[i] = 0
                THEN hash_nodes(proof.path[i], computed_hash)
                ELSE hash_nodes(computed_hash, proof.path[i]))

\* a verification that never compares the folded hash with the root
verify_without_memcmp(proof, leaf_hash, root_hash) ==
  IF proof = NULL THEN 0
  ELSE IF Len(proof.path) = 0 THEN 0
  ELSE 1

merkle_tree_verify_inclusion_proof(proof, leaf_hash, root_hash) ==
  IF proof = NULL THEN 0
  ELSE IF Len(proof.path) = 0 THEN 0
  ELSE IF FoldPath(proof, 1, leaf_hash) = root_hash THEN 1 ELSE 0

(***************************************************************************)
(* State.  One harness drives each subsystem; pc is its position.          *)
(***************************************************************************)
VARIABLES
  pc,                \* position of the driving program
  msg,               \* the message being hashed
  digest1,           \* output of the one-shot sm3_hash(msg)
  ctx,               \* the sm3_ctx_t of the incremental computation
  fed,               \* bytes of msg passed to sm3_update so far
  updates,           \* number of sm3_update calls made
  digest,            \* output of sm3_final on ctx
  additional,        \* the attacker's suffix (additional_data)
  attack,            \* what sm3_length_extension_attack returned and wrote
  verification_hash, \* sm3_hash(msg || extended_message)
  tables_init,       \* whether sm3_optimized_init has filled the tables
  hash_opt,          \* output of sm3_hash_optimized(msg)
  c_state,           \* state[8] handed to both compression functions
  c_block,           \* block[64] handed to both
  state_basic,       \* state[8] as sm3_compress_basic leaves it
  state_optimized,   \* state[8] as sm3_compress_optimized leaves it
  g_thread_pool,     \* sm3_parallel.c: num_threads, active_threads, shutdown
  g_work_queue,      \* tasks[], capacity, size, head, tail and who holds mutex
  pool_workers,      \* per worker thread: position and the task it popped
  p_count,           \* count of the sm3_hash_parallel call
  p_i,               \* loop index of the main thread (push loop, join loop)
  p_hashes,            \* per task: hashes[i] and how often the task was popped
  temp1,             \* the word handed to the SM4 T transform
  temp2_basic,       \* sm4_l(sm4_tau(temp1))
  temp2_opt,         \* sm4_t_optimized(temp1)
  t_key,             \* test_optimized_encryption: the key of the vector
  t_plaintext,       \* the plaintext block of the vector
  t_ctx,             \* ctx.rk[0..31] of the test
  t_output,          \* output[] written by sm4_encrypt_optimized
  t_decrypted,       \* decrypted[] written by sm4_decrypt_optimized
  sm4_tables,        \* sm4_t0 .. sm4_t3: per run of indices, what was stored last
  sm4_tables_initialized, \* the flag of sm4_optimized.c
  enc_threads,       \* per thread in sm4_encrypt_optimized: position, x[], output
  key,               \* sm4_gcm_encrypt / sm4_gcm_decrypt: key
  iv,                \* the IV of both calls
  aad,               \* the AAD given to sm4_gcm_encrypt
  plaintext,         \* the plaintext given to sm4_gcm_encrypt
  tag_len,           \* the tag length of both calls
  gctx,              \* the sm4_gcm_context_t of the call in progress
  ciphertext,        \* ciphertext buffer written by sm4_gcm_encrypt
  tag,               \* tag buffer written by sm4_gcm_encrypt
  tampered,          \* which buffer had a bit flipped before decryption
  d_aad,             \* the AAD given to sm4_gcm_decrypt
  d_ciphertext,      \* the ciphertext given to sm4_gcm_decrypt
  d_tag,             \* the tag given to sm4_gcm_decrypt
  d_plaintext,       \* plaintext buffer written by sm4_gcm_decrypt
  computed_tag,      \* computed_tag[] of sm4_gcm_decrypt
  ret,               \* return value of sm4_gcm_decrypt
  phase,             \* how far the calls made on gctx have come in the call order
  calls,             \* number of calls made on gctx after sm4_gcm_init
  call,              \* the function called last on gctx
  call_ret,          \* its return value
  avx2,              \* whether the build defines __AVX2__
  sctx,              \* the sm4_gcm_simd_context_t of sm4_gcm_encrypt_simd
  s_ciphertext,      \* ciphertext buffer written by sm4_gcm_encrypt_simd
  s_tag,             \* tag buffer written by sm4_gcm_encrypt_simd
  leaf_hashes,       \* tree->leaf_hashes[0 .. leaf_count - 1]
  current_level,     \* the node array the workers of a level share
  current_count,     \* current_count of merkle_tree_build
  workers,           \* per thread: position, i, end_index, loaded pointers
  root,              \* tree->root
  proof,             \* what merkle_tree_generate_inclusion_proof returned
  verify_ret,        \* what merkle_tree_verify_inclusion_proof returned
  forged,            \* a proof and a leaf hash with one byte changed
  build_ret          \* what merkle_tree_build returned

sm3vars == <<msg, digest1>>

streamvars == <<ctx, fed, updates, digest>>

levars == <<additional, attack, verification_hash>>

compressvars == <<c_state, c_block, state_basic, state_optimized>>

poolvars == <<g_thread_pool, g_work_queue, pool_workers, p_count, p_i, p_hashes>>

optvars == <<tables_init, hash_opt, compressvars, poolvars>>

treevars == <<leaf_hashes, current_level, current_count, workers, root, proof, verify_ret,
              forged, build_ret>>

hashvars == <<sm3vars, streamvars, levars, optvars, treevars>>

blockvars == <<t_key, t_plaintext, t_ctx, t_output, t_decrypted>>

firstusevars == <<sm4_tables, sm4_tables_initialized, enc_threads>>

sm4vars == <<temp1, temp2_basic, temp2_opt, blockvars, firstusevars>>

gcminputs == <<key, iv, aad, plaintext, tag_len>>

encvars == <<gctx, ciphertext, tag>>

decvars == <<tampered, d_aad, d_ciphertext, d_tag, d_plaintext, computed_tag, ret>>

ordervars == <<phase, calls, call, call_ret>>

gcmvars == <<gcminputs, encvars, decvars, ordervars>>

simdvars == <<avx2, sctx, s_ciphertext, s_tag>>

vars == <<pc, hashvars, sm4vars, gcmvars, simdvars>>

\* value of an output buffer nothing has been written to yet
NoBytes == <<>>

NoAttack == [ret |-> 0, extended_message |-> <<>>, extended_hash |-> <<>>]

\* test messages: len bytes, byte i is (seed + 37 i) mod 256
Msg(len, seed) == [i \in 1..len |-> (seed + (37 * i)) % 256]

\* "abc", the first vector of tests/test_sm3.c
Abc == <<97, 98, 99>>

InitIdleStream ==
  /\ ctx = sm3_init
  /\ fed = 0
  /\ updates = 0
  /\ digest = NoBytes

InitIdleLe ==
  /\ additional = NoBytes
  /\ attack = NoAttack
  /\ verification_hash = NoBytes

InitIdleCompress ==
  /\ c_state = <<>>
  /\ c_block = NoBytes
  /\ state_basic = <<>>
  /\ state_optimized = <<>>

\* static thread_pool_t g_thread_pool = {0}; static work_queue_t g_work_queue = {0}
InitIdlePool ==
  /\ g_thread_pool = [num_threads |-> 0, active_threads |-> 0, shutdown |-> 0]
  /\ g_work_queue = [tasks |-> <<>>, capacity |-> 0, size |-> 0, head |-> 0,
                     tail |-> 0, mutex |-> {}]
  /\ pool_workers = <<>>
  /\ p_count = 0
  /\ p_i = 0
  /\ p_hashes = <<>>

InitIdleOpt ==
  /\ tables_init = FALSE
  /\ hash_opt = NoBytes
  /\ InitIdleCompress
  /\ InitIdlePool

NoWord == <<0, 0>>

InitIdleBlock ==
  /\ t_key = NoBytes
  /\ t_plaintext = NoBytes
  /\ t_ctx = <<>>
  /\ t_output = NoBytes
  /\ t_decrypted = NoBytes

InitIdleFirstUse ==
  /\ sm4_tables = <<>>
  /\ sm4_tables_initialized = 0
  /\ enc_threads = <<>>

InitIdleSm4 ==
  /\ temp1 = NoWord
  /\ temp2_basic = NoWord
  /\ temp2_opt = NoWord
  /\ InitIdleBlock
  /\ InitIdleFirstUse

InitIdleOrder ==
  /\ phase = "none"
  /\ calls = 0
  /\ call = "none"
  /\ call_ret = 0

\* a context nothing has been written to: the stack bytes it occupies
NoContext == StackContext(0)

InitIdleGcm ==
  /\ key = NoBytes
  /\ iv = NoBytes
  /\ aad = NoBytes
  /\ plaintext = NoBytes
  /\ tag_len = 0
  /\ gctx = NoContext
  /\ ciphertext = NoBytes
  /\ tag = NoBytes
  /\ tampered = "none"
  /\ d_aad = NoBytes
  /\ d_ciphertext = NoBytes
  /\ d_tag = NoBytes
  /\ d_plaintext = NoBytes
  /\ computed_tag = NoBytes
  /\ ret = 0
  /\ InitIdleOrder

InitIdleSimd ==
  /\ avx2 = FALSE
  /\ sctx = StackSimdContext(0)
  /\ s_ciphertext = NoBytes
  /\ s_tag = NoBytes

Threads == 0 .. (num_threads - 1)

\* a thread merkle_tree_build has not created
IdleWorker == [pc |-> "idle", i |-> 0, end_index |-> 0, left |-> NULL, right |-> NULL]

InitIdleTree ==
  /\ leaf_hashes = <<>>
  /\ current_level = <<>>
  /\ current_count = 0
  /\ workers = [t \in Threads |-> IdleWorker]
  /\ root = NULL
  /\ proof = NULL
  /\ verify_ret = 0
  /\ forged = NULL
  /\ build_ret = 0

InitIdleHash ==
  /\ msg = NoBytes
  /\ digest1 = NoBytes
  /\ InitIdleStream
  /\ InitIdleLe
  /\ InitIdleOpt
  /\ InitIdleTree

(***************************************************************************)
(* Incremental hashing against one-shot hashing (tests/test_sm3.c,         *)
(* test_sm3_incremental)                                                   *)
(***************************************************************************)
MaxUpdates == 3

StreamLens == {0, 1, 64, 65, 130}

ChunkLens == {0, 1, 2, 63, 64, 65, 66, 129, 130}

StreamMessages == {Msg(len, 1) : len \in StreamLens} \cup {Abc}

InitSm3 ==
  /\ pc = "start"
  /\ msg \in StreamMessages
  /\ digest1 = NoBytes
  /\ InitIdleStream
  /\ InitIdleLe
  /\ InitIdleOpt
  /\ InitIdleTree
  /\ InitIdleSm4
  /\ InitIdleGcm
  /\ InitIdleSimd

\* sm3_hash(message, len, digest1)
Sm3HashOneShot ==
  /\ pc = "start"
  /\ digest1' = sm3_hash(msg)
  /\ pc' = "hashed"
  /\ UNCHANGED <<msg, streamvars, levars, optvars, treevars, sm4vars, gcmvars, simdvars>>

\* sm3_init(&ctx)
Sm3Init ==
  /\ pc = "hashed"
  /\ ctx' = sm3_init
  /\ fed' = 0
  /\ updates' = 0
  /\ pc' = "stream"
  /\ UNCHANGED <<sm3vars, digest, levars, optvars, treevars, sm4vars, gcmvars, simdvars>>

\* sm3_update(&ctx, message + fed, n)
Sm3Update(n) ==
  /\ pc = "stream"
  /\ updates < MaxUpdates
  /\ fed + n <= Len(msg)
  /\ ctx' = sm3_update(ctx, Bytes(msg, fed, n))
  /\ fed' = fed + n
  /\ updates' = updates + 1
  /\ UNCHANGED <<pc, sm3vars, digest, levars, optvars, treevars, sm4vars, gcmvars, simdvars>>

\* sm3_final(&ctx, digest2), once the whole message has been fed
Sm3Final ==
  /\ pc = "stream"
  /\ fed = Len(msg)
  /\ digest' = sm3_final(ctx)
  /\ ctx' = sm3_final_ctx(ctx)
  /\ pc' = "final"
  /\ UNCHANGED <<sm3vars, fed, updates, levars, optvars, treevars, sm4vars, gcmvars, simdvars>>

NextSm3 ==
  \/ Sm3HashOneShot
  \/ Sm3Init
  \/ \E n \in ChunkLens : Sm3Update(n)
  \/ Sm3Final

SpecSm3 == InitSm3 /\ [][NextSm3]_vars

\* C7: whatever the sequence of chunks handed to sm3_update (empty chunks
\* and chunks straddling a 64-byte boundary included), sm3_final then
\* yields the digest that one sm3_hash call yields on the whole message.
C7_ChunkedEqualsOneShot == (pc = "final") => (digest = digest1)

\* the message was fed in several chunks, one of them empty, one of them
\* ending inside a block that an earlier chunk had started
C7_Witness ==
  /\ pc = "final"
  /\ updates = MaxUpdates
  /\ Len(msg) > SM3_BLOCK_SIZE
  /\ digest = digest1
  /\ Len(digest) = SM3_DIGEST_SIZE

\* expected_hex of the vectors "abc" and "" of tests/test_sm3.c
AbcDigest ==
  <<102, 199, 240, 244, 98, 238, 237, 217, 209, 242, 212, 107, 220, 16, 228, 226,
    65, 103, 196, 135, 92, 242, 247, 162, 41, 125, 160, 43, 143, 75, 168, 224>>

EmptyDigest ==
  <<26, 178, 29, 131, 85, 207, 161, 127, 142, 97, 25, 72, 49, 232, 26, 143,
    34, 190, 200, 199, 40, 254, 251, 116, 126, 208, 53, 235, 80, 130, 170, 43>>

\* C14: sm3_hash of the three bytes "abc" is 66c7f0f4 62eeedd9 d1f2d46b
\* dc10e4e2 4167c487 5cf2f7a2 297da02b 8f4ba8e0, and sm3_hash of the empty
\* message is 1ab21d83 55cfa17f 8e611948 31e81a8f 22bec8c7 28fefb74 7ed035eb
\* 5082aa2b.
C14_StandardVectors ==
  (pc # "start") =>
     /\ (msg = Abc) => (digest1 = AbcDigest)
     /\ (Len(msg) = 0) => (digest1 = EmptyDigest)

\* "abc" has been hashed
C14_Witness ==
  /\ pc = "hashed"
  /\ msg = Abc
  /\ digest1 = AbcDigest

\* the empty message has been hashed
C14_WitnessEmpty ==
  /\ pc = "hashed"
  /\ Len(msg) = 0
  /\ digest1 = EmptyDigest


\* C21: after sm3_init and any sequence of sm3_update calls, ctx.count is
\* the number of bytes passed to sm3_update; the count mod 64 bytes at the
\* head of ctx.buffer (fewer than 64) are the last count mod 64 bytes of the
\* concatenated input; and ctx.state is the initial state after the
\* compression of the first floor(count / 64) blocks of the input, no more
\* and no fewer.
C21_CountBufferAndBlocks ==
  (pc = "stream") =>
     /\ ctx.count = fed
     /\ ctx.count % SM3_BLOCK_SIZE < SM3_BLOCK_SIZE
     /\ Len(ctx.buffer) = SM3_BLOCK_SIZE
     /\ SubSeq(ctx.buffer, 1, ctx.count % SM3_BLOCK_SIZE)
          = Bytes(msg, fed - (fed % SM3_BLOCK_SIZE), fed % SM3_BLOCK_SIZE)
     /\ ctx.state = CompressBlocks(sm3_iv, msg, 0, fed \div SM3_BLOCK_SIZE)
     /\ (fed >= SM3_BLOCK_SIZE) =>
          (ctx.state # CompressBlocks(sm3_iv, msg, 0, (fed \div SM3_BLOCK_SIZE) - 1))

\* three calls have passed 130 bytes: two blocks are compressed and two
\* bytes wait in the buffer
C21_Witness ==
  /\ pc = "stream"
  /\ updates = MaxUpdates
  /\ ctx.count = 130
  /\ SubSeq(ctx.buffer, 1, 2) = Bytes(msg, 128, 2)
  /\ ctx.state = CompressBlocks(sm3_iv, msg, 0, 2)

\* a call has completed a buffer that an earlier call had started: the
\* count is a multiple of 64 and nothing waits in the buffer
C21_WitnessFilled ==
  /\ pc = "stream"
  /\ updates = 2
  /\ ctx.count = SM3_BLOCK_SIZE
  /\ ctx.state = sm3_compress_optimized(sm3_iv, msg)

(***************************************************************************)
(* The length-extension attack and its verification                        *)
(* (length_extension.c, test_attack_with_various_lengths)                  *)
(***************************************************************************)
LeLens == {0, 1, 55, 56, 63, 64, 65, 119, 120, 128}

SuffixLens == {0, 1, 47, 64, 70}

\* what the uninitialised ctx.buffer of sm3_continue_from_state may hold
StackBytes == {0, 255}

InitLenExt ==
  /\ pc = "start"
  /\ msg \in {Msg(len, 1) : len \in LeLens}
  /\ digest1 = NoBytes
  /\ InitIdleStream
  /\ InitIdleLe
  /\ InitIdleOpt
  /\ InitIdleTree
  /\ InitIdleSm4
  /\ InitIdleGcm
  /\ InitIdleSimd

\* sm3_length_extension_attack(known_hash, L, suffix, n, extended_message, extended_hash)
LeAttack(n, stack_byte) ==
  /\ pc = "hashed"
  /\ additional' = Msg(n, 7)
  /\ attack' = sm3_length_extension_attack(digest1, Len(msg), Msg(n, 7), stack_byte)
  /\ pc' = "attacked"
  /\ UNCHANGED <<sm3vars, streamvars, verification_hash, optvars, treevars, sm4vars, gcmvars, simdvars>>

\* sm3_hash(full_msg || extended_message, ..., verification_hash)
LeVerify ==
  /\ pc = "attacked"
  /\ verification_hash' = sm3_hash(msg \o attack.extended_message)
  /\ pc' = "verified"
  /\ UNCHANGED <<sm3vars, streamvars, additional, attack, optvars, treevars, sm4vars, gcmvars, simdvars>>

NextLenExt ==
  \/ Sm3HashOneShot
  \/ \E n \in SuffixLens : \E b \in StackBytes : LeAttack(n, b)
  \/ LeVerify

SpecLenExt == InitLenExt /\ [][NextLenExt]_vars

\* C6: from sm3_hash(m) and len(m) alone the attack returns the digest of
\* m || sm3_padding(len(m)) || X, writes padding || X as the extended
\* message and returns len(padding) + len(X), at every length of m,
\* those with len(m) mod 64 in {55, 56, 63, 0} included.
C6_LengthExtension ==
  (pc = "verified") =>
     /\ attack.extended_hash = verification_hash
     /\ attack.extended_message
          = sm3_padding(Len(msg), PADDING_BUF_SIZE) \o additional
     /\ attack.ret = Len(FinalPadding(Len(msg))) + Len(additional)
     /\ attack.ret = Len(attack.extended_message)

\* a 56-byte message, whose padding spills into a second block, extended
\* by a suffix longer than a block
C6_Witness ==
  /\ pc = "verified"
  /\ Len(msg) = 56
  /\ Len(additional) = 70
  /\ attack.ret = 142
  /\ attack.extended_hash = verification_hash
  /\ Len(verification_hash) = SM3_DIGEST_SIZE


\* the bytes sm3_padding wrote for the message, as the attack laid them out
\* at the head of extended_message
WrittenPadding == SubSeq(attack.extended_message, 1,
                         Len(attack.extended_message) - Len(additional))

\* padding is 0x80, then zeros, then bits as 8 big-endian bytes
PaddingLayout(padding, bits) ==
  /\ padding[1] = 128
  /\ \A i \in 2..(Len(padding) - 8) : padding[i] = 0
  /\ SubSeq(padding, Len(padding) - 7, Len(padding)) = BE64(bits)

\* C20: the bytes sm3_padding returns for a message of L bytes are the bytes
\* sm3_final appends to it: 0x80, the fewest zero bytes that bring
\* L + 1 + zeros to 56 mod 64, and L * 8 as 8 big-endian bytes; their number
\* is between 9 and 72, brings L to a multiple of 64, and is what
\* sm3_continue_from_state adds to L for its counter.
C20_PaddingIsFinalPadding ==
  (pc \in {"attacked", "verified"}) =>
     /\ WrittenPadding = FinalPadding(Len(msg))
     /\ WrittenPadding = sm3_padding(Len(msg), PADDING_BUF_SIZE)
     /\ PaddingLayout(WrittenPadding, Len(msg) * 8)
     /\ (Len(msg) + Len(WrittenPadding) - 8) % SM3_BLOCK_SIZE = 56
     /\ Len(WrittenPadding) - 9 < SM3_BLOCK_SIZE
     /\ Len(WrittenPadding) >= 9
     /\ Len(WrittenPadding) <= 72
     /\ (Len(msg) + Len(WrittenPadding)) % SM3_BLOCK_SIZE = 0
     /\ padded_length(Len(msg)) = Len(msg) + Len(WrittenPadding)
     /\ sm3_final_ctx(sm3_update(sm3_init, msg)).count = Len(msg) + Len(WrittenPadding)

\* a 55-byte message got the shortest padding, 9 bytes
C20_Witness ==
  /\ pc = "attacked"
  /\ Len(msg) = 55
  /\ Len(WrittenPadding) = 9
  /\ WrittenPadding = FinalPadding(55)

\* a 56-byte message got the longest padding, 72 bytes
C20_WitnessLongest ==
  /\ pc = "attacked"
  /\ Len(msg) = 56
  /\ Len(WrittenPadding) = 72

(***************************************************************************)
(* sm3_hash_optimized against sm3_hash                                     *)
(***************************************************************************)
OptLens == {0, 1, 2, 55, 56, 63, 64, 65, 119, 120, 127, 128}

OptSeeds == {1, 2}

InitSm3Opt ==
  /\ pc = "start"
  /\ msg \in {Msg(len, seed) : len \in OptLens, seed \in OptSeeds} \cup {Abc}
  /\ digest1 = NoBytes
  /\ InitIdleStream
  /\ InitIdleLe
  /\ InitIdleOpt
  /\ InitIdleTree
  /\ InitIdleSm4
  /\ InitIdleGcm
  /\ InitIdleSimd

\* sm3_optimized_init(): the program may or may not call it before hashing
Sm3OptimizedInit ==
  /\ pc = "hashed"
  /\ ~tables_init
  /\ tables_init' = TRUE
  /\ UNCHANGED <<pc, sm3vars, streamvars, levars, hash_opt, compressvars, poolvars, treevars, sm4vars, gcmvars, simdvars>>

\* sm3_hash_optimized(message, len, hash)
Sm3HashOptimized ==
  /\ pc = "hashed"
  /\ hash_opt' = sm3_hash_optimized(msg, tables_init)
  /\ pc' = "optimized"
  /\ UNCHANGED <<sm3vars, streamvars, levars, tables_init, compressvars, poolvars, treevars, sm4vars, gcmvars, simdvars>>

NextSm3Opt ==
  \/ Sm3HashOneShot
  \/ Sm3OptimizedInit
  \/ Sm3HashOptimized

SpecSm3Opt == InitSm3Opt /\ [][NextSm3Opt]_vars

\* C9: sm3_hash_optimized returns the digest sm3_hash returns, for every
\* message, the empty one and those one or two padding blocks long included.
C9_OptimizedEqualsBasic == (pc = "optimized") => (hash_opt = digest1)

\* C9 restricted to the tables as declared, and to the tables as
\* sm3_optimized_init would fill them: it fails in both
C9_DeclaredTables == (pc = "optimized" /\ ~tables_init) => (hash_opt = digest1)

C9_FilledTables == (pc = "optimized" /\ tables_init) => (hash_opt = digest1)


(***************************************************************************)
(* The two compression functions of sm3_basic.c on the same state and the  *)
(* same block                                                              *)
(***************************************************************************)
AllOnes == <<65535, 65535>>

CompressStates ==
  {sm3_iv,
   [i \in 1..8 |-> NoWord],
   [i \in 1..8 |-> AllOnes],
   [i \in 1..8 |-> IF i % 2 = 1 THEN AllOnes ELSE <<32768, 1>>],
   sm3_compress_basic(sm3_iv, Msg(64, 1))}

CompressBlocksIn ==
  {[i \in 1..64 |-> 0],
   [i \in 1..64 |-> 255],
   Msg(64, 1), Msg(64, 7), Msg(64, 200),
   Abc \o FinalPadding(3)}

InitCompress ==
  /\ pc = "start"
  /\ c_state \in CompressStates
  /\ c_block \in CompressBlocksIn
  /\ state_basic = <<>>
  /\ state_optimized = <<>>
  /\ tables_init = FALSE
  /\ hash_opt = NoBytes
  /\ InitIdlePool
  /\ msg = NoBytes
  /\ digest1 = NoBytes
  /\ InitIdleStream
  /\ InitIdleLe
  /\ InitIdleTree
  /\ InitIdleSm4
  /\ InitIdleGcm
  /\ InitIdleSimd

\* sm3_compress_basic(state, block) on a copy of the state
CompressBasic ==
  /\ state_basic = <<>>
  /\ state_basic' = sm3_compress_basic(c_state, c_block)
  /\ pc' = IF state_optimized # <<>> THEN "compressed" ELSE pc
  /\ UNCHANGED <<sm3vars, streamvars, levars, tables_init, hash_opt, c_state, c_block,
                 state_optimized, poolvars, treevars, sm4vars, gcmvars, simdvars>>

\* sm3_compress_optimized(state, block) on another copy
CompressOptimized ==
  /\ state_optimized = <<>>
  /\ state_optimized' = sm3_compress_optimized(c_state, c_block)
  /\ pc' = IF state_basic # <<>> THEN "compressed" ELSE pc
  /\ UNCHANGED <<sm3vars, streamvars, levars, tables_init, hash_opt, c_state, c_block,
                 state_basic, poolvars, treevars, sm4vars, gcmvars, simdvars>>

NextCompress ==
  \/ CompressBasic
  \/ CompressOptimized

SpecCompress == InitCompress /\ [][NextCompress]_vars

\* C24: on every 8-word state and every 64-byte block,
\* sm3_compress_optimized (expansion unrolled by four, rounds split at
\* round 16) leaves the 8-word state sm3_compress_basic leaves, all
\* additions being modulo 2^32.
C24_OptimizedCompressEqualsBasic ==
  (pc = "compressed") =>
     /\ state_optimized = state_basic
     /\ Len(state_basic) = 8
     /\ MessageExpansionUnrolled(LoadBlock(c_block)) = MessageExpansion(LoadBlock(c_block))

\* both functions have run on the all-ones state, where the additions of
\* the first round wrap, and have changed it
C24_Witness ==
  /\ pc = "compressed"
  /\ c_state = [i \in 1..8 |-> AllOnes]
  /\ c_block = Msg(64, 7)
  /\ state_optimized = state_basic
  /\ state_basic # c_state

\* both have run on the padded block of "abc" from the initial state: the
\* state is the digest of "abc"
C24_WitnessAbc ==
  /\ pc = "compressed"
  /\ c_state = sm3_iv
  /\ StateToDigest(state_optimized) = AbcDigest
  /\ StateToDigest(state_basic) = AbcDigest


(***************************************************************************)
(* The thread pool of project4/src/sm3_parallel.c.  The main thread calls  *)
(* sm3_parallel_init, at most one sm3_hash_parallel and then               *)
(* sm3_parallel_cleanup; pc is its position.  A thread blocked in          *)
(* pthread_cond_wait is at a waiting position, and a signal moves one      *)
(* waiter (a broadcast every waiter) to the position where it takes the    *)
(* mutex again.  The critical sections of g_thread_pool.mutex are single   *)
(* steps: active_threads is read and written under that mutex only.  The   *)
(* critical section of work_queue_pop is split where it reads              *)
(* g_thread_pool.shutdown, which sm3_parallel_cleanup writes without       *)
(* holding any mutex.  A hash is written as [sm3 |-> i], the digest of     *)
(* messages[i].                                                            *)
(***************************************************************************)
MAX_THREADS == 16

\* num_threads handed to sm3_parallel_init
PoolThreads == 2

\* largest count handed to sm3_hash_parallel
MaxCount == 4

\* capacity of the queue: 1000 in sm3_parallel_init, taken small enough
\* here for the queue to fill up under the counts at hand
QueueCapacity == 3

PoolCounts == {0, MaxCount - 1, MaxCount}

Workers == 1..g_thread_pool.num_threads

\* if (num_threads <= 0 || num_threads > MAX_THREADS) num_threads = 4;
PoolSize(n_threads) ==
  IF n_threads <= 0 \/ n_threads > MAX_THREADS THEN 4 ELSE n_threads

\* sm3_task_t for messages[i], lengths[i], hashes[i]
Task(i) == [task_id |-> i]

NoTask == [task_id |-> -1]

\* hashes[i] before anything is written to it
Unwritten == [sm3 |-> -1]

\* a variant that does not advance
NextSlotStuck(k, capacity) == k

\* (queue->head + 1) % queue->capacity, and the same for tail
NextSlot(k, capacity) == (k + 1) % capacity

\* pthread_cond_signal(&queue->not_empty): the workers one of which it wakes
NotEmptyWaiters == {w \in DOMAIN pool_workers : pool_workers[w].at = "waiting"}

InitPool ==
  /\ pc = "start"
  /\ InitIdlePool
  /\ tables_init = FALSE
  /\ hash_opt = NoBytes
  /\ InitIdleCompress
  /\ msg = NoBytes
  /\ digest1 = NoBytes
  /\ InitIdleStream
  /\ InitIdleLe
  /\ InitIdleTree
  /\ InitIdleSm4
  /\ InitIdleGcm
  /\ InitIdleSimd

PoolFrame ==
  UNCHANGED <<sm3vars, streamvars, levars, tables_init, hash_opt, compressvars,
              treevars, sm4vars, gcmvars, simdvars>>

\* sm3_parallel_init(num_threads), work_queue_init included
PoolInit(n_threads) ==
  /\ pc = "start"
  /\ g_thread_pool' = [num_threads |-> PoolSize(n_threads), active_threads |-> 0,
                       shutdown |-> 0]
  /\ g_work_queue' = [tasks |-> [k \in 1..QueueCapacity |-> NoTask],
                      capacity |-> QueueCapacity, size |-> 0, head |-> 0, tail |-> 0,
                      mutex |-> {}]
  /\ pool_workers' = [w \in 1..PoolSize(n_threads) |-> [at |-> "loop", task |-> NoTask]]
  /\ pc' = "ready"
  /\ UNCHANGED <<p_count, p_i, p_hashes>>
  /\ PoolFrame

\* sm3_hash_parallel(messages, lengths, count, hashes) up to the push loop:
\* nothing to do, or the sequential path, or active_threads = count
HashParallelEnter(count) ==
  /\ pc = "ready"
  /\ p_count' = count
  /\ p_i' = 0
  /\ IF count < 4
     THEN /\ p_hashes' = [i \in 1..count |-> [pops |-> 0, hash |-> [sm3 |-> i - 1]]]
          /\ pc' = "returned"
          /\ UNCHANGED g_thread_pool
     ELSE /\ p_hashes' = [i \in 1..count |-> [pops |-> 0, hash |-> Unwritten]]
          /\ g_thread_pool' = [g_thread_pool EXCEPT !.active_threads = count]
          /\ pc' = "pushing"
  /\ UNCHANGED <<g_work_queue, pool_workers>>
  /\ PoolFrame

\* work_queue_push(&g_work_queue, &task) for task p_i, from pthread_mutex_lock
\* to pthread_cond_wait or to pthread_mutex_unlock
HashParallelPush ==
  /\ pc = "pushing"
  /\ g_work_queue.mutex = {}
  /\ IF g_work_queue.size = g_work_queue.capacity
     THEN /\ pc' = "push_wait"
          /\ UNCHANGED <<g_work_queue, pool_workers, p_i>>
     ELSE /\ g_work_queue' =
               [g_work_queue EXCEPT
                  !.tasks = [@ EXCEPT ![g_work_queue.tail + 1] = Task(p_i)],
                  !.tail = NextSlot(@, g_work_queue.capacity),
                  !.size = @ + 1]
          /\ \/ /\ NotEmptyWaiters = {}
                /\ UNCHANGED pool_workers
             \/ \E w \in NotEmptyWaiters :
                  pool_workers' = [pool_workers EXCEPT ![w].at = "pop_lock"]
          /\ p_i' = p_i + 1
          /\ pc' = IF p_i + 1 < p_count THEN "pushing" ELSE "wait_done"
  /\ UNCHANGED <<g_thread_pool, p_count, p_hashes>>
  /\ PoolFrame

\* while (active_threads > 0) pthread_cond_wait(&condition, &mutex), under
\* g_thread_pool.mutex; then return 0
HashParallelWait ==
  /\ pc = "wait_done"
  /\ pc' = IF g_thread_pool.active_threads > 0 THEN "done_wait" ELSE "returned"
  /\ UNCHANGED poolvars
  /\ PoolFrame

\* sm3_parallel_cleanup: g_thread_pool.shutdown = 1
CleanupShutdown ==
  /\ pc \in {"ready", "returned"}
  /\ g_thread_pool' = [g_thread_pool EXCEPT !.shutdown = 1]
  /\ pc' = "shutdown_set"
  /\ UNCHANGED <<g_work_queue, pool_workers, p_count, p_i, p_hashes>>
  /\ PoolFrame

\* pthread_cond_broadcast(&g_work_queue.not_empty)
CleanupBroadcast ==
  /\ pc = "shutdown_set"
  /\ pool_workers' =
       [w \in DOMAIN pool_workers |->
          IF pool_workers[w].at = "waiting"
          THEN [pool_workers[w] EXCEPT !.at = "pop_lock"]
          ELSE pool_workers[w]]
  /\ p_i' = 0
  /\ pc' = "joining"
  /\ UNCHANGED <<g_thread_pool, g_work_queue, p_count, p_hashes>>
  /\ PoolFrame

\* pthread_join(g_thread_pool.threads[p_i], NULL); after the last one the
\* mutexes and conditions are destroyed and the tasks freed
CleanupJoin ==
  /\ pc = "joining"
  /\ pool_workers[p_i + 1].at = "exit"
  /\ p_i' = p_i + 1
  /\ pc' = IF p_i + 1 < g_thread_pool.num_threads THEN "joining" ELSE "cleaned"
  /\ UNCHANGED <<g_thread_pool, g_work_queue, pool_workers, p_count, p_hashes>>
  /\ PoolFrame

\* worker_thread: while (!g_thread_pool.shutdown)
WorkerTestShutdown(w) ==
  /\ w \in DOMAIN pool_workers
  /\ pool_workers[w].at = "loop"
  /\ pool_workers' =
       [pool_workers EXCEPT ![w].at =
          IF g_thread_pool.shutdown # 0 THEN "exit" ELSE "pop_lock"]
  /\ UNCHANGED <<pc, g_thread_pool, g_work_queue, p_count, p_i, p_hashes>>
  /\ PoolFrame

\* work_queue_pop: pthread_mutex_lock(&queue->mutex), on entry and when
\* pthread_cond_wait returns
WorkerPopLock(w) ==
  /\ w \in DOMAIN pool_workers
  /\ pool_workers[w].at = "pop_lock"
  /\ g_work_queue.mutex = {}
  /\ g_work_queue' = [g_work_queue EXCEPT !.mutex = {w}]
  /\ pool_workers' = [pool_workers EXCEPT ![w].at = "pop_test"]
  /\ UNCHANGED <<pc, g_thread_pool, p_count, p_i, p_hashes>>
  /\ PoolFrame

\* work_queue_pop with the mutex held: the test of the while loop, and past
\* the loop either return -1 or the task at head, the signal on not_full
\* and the unlock
WorkerPopTest(w) ==
  /\ w \in DOMAIN pool_workers
  /\ pool_workers[w].at = "pop_test"
  /\ IF g_work_queue.size = 0 /\ g_thread_pool.shutdown = 0
     THEN /\ pool_workers' = [pool_workers EXCEPT ![w].at = "pop_wait"]
          /\ UNCHANGED <<pc, g_work_queue, p_hashes>>
     ELSE IF g_thread_pool.shutdown # 0 /\ g_work_queue.size = 0
     THEN /\ pool_workers' = [pool_workers EXCEPT ![w].at = "loop"]
          /\ g_work_queue' = [g_work_queue EXCEPT !.mutex = {}]
          /\ UNCHANGED <<pc, p_hashes>>
     ELSE /\ pool_workers' =
               [pool_workers EXCEPT
                  ![w] = [at |-> "hash", task |-> g_work_queue.tasks[g_work_queue.head + 1]]]
          /\ g_work_queue' =
               [g_work_queue EXCEPT
                  !.head = NextSlot(@, g_work_queue.capacity),
                  !.size = @ - 1,
                  !.mutex = {}]
          /\ p_hashes' =
               [p_hashes EXCEPT
                  ![g_work_queue.tasks[g_work_queue.head + 1].task_id + 1].pops = @ + 1]
          /\ pc' = IF pc = "push_wait" THEN "pushing" ELSE pc
  /\ UNCHANGED <<g_thread_pool, p_count, p_i>>
  /\ PoolFrame

\* pthread_cond_wait(&queue->not_empty, &queue->mutex): the mutex is
\* released and the thread waits
WorkerPopWait(w) ==
  /\ w \in DOMAIN pool_workers
  /\ pool_workers[w].at = "pop_wait"
  /\ g_work_queue' = [g_work_queue EXCEPT !.mutex = {}]
  /\ pool_workers' = [pool_workers EXCEPT ![w].at = "waiting"]
  /\ UNCHANGED <<pc, g_thread_pool, p_count, p_i, p_hashes>>
  /\ PoolFrame

\* sm3_hash(task.message, task.length, task.hash)
WorkerHash(w) ==
  /\ w \in DOMAIN pool_workers
  /\ pool_workers[w].at = "hash"
  /\ p_hashes' =
       [p_hashes EXCEPT ![pool_workers[w].task.task_id + 1].hash =
                         [sm3 |-> pool_workers[w].task.task_id]]
  /\ pool_workers' = [pool_workers EXCEPT ![w].at = "decrement"]
  /\ UNCHANGED <<pc, g_thread_pool, g_work_queue, p_count, p_i>>
  /\ PoolFrame

\* g_thread_pool.active_threads--; pthread_cond_signal(&condition), under
\* g_thread_pool.mutex
WorkerDecrement(w) ==
  /\ w \in DOMAIN pool_workers
  /\ pool_workers[w].at = "decrement"
  /\ g_thread_pool' = [g_thread_pool EXCEPT !.active_threads = @ - 1]
  /\ pool_workers' = [pool_workers EXCEPT ![w].at = "loop"]
  /\ pc' = IF pc = "done_wait" THEN "wait_done" ELSE pc
  /\ UNCHANGED <<g_work_queue, p_count, p_i, p_hashes>>
  /\ PoolFrame

\* the steps of the main thread, and of worker w
MainSteps ==
  \/ \E n \in {PoolThreads} : PoolInit(n)
  \/ \E count \in PoolCounts : HashParallelEnter(count)
  \/ HashParallelPush
  \/ HashParallelWait
  \/ CleanupShutdown
  \/ CleanupBroadcast
  \/ CleanupJoin

WorkerSteps(w) ==
  \/ WorkerTestShutdown(w)
  \/ WorkerPopLock(w)
  \/ WorkerPopTest(w)
  \/ WorkerPopWait(w)
  \/ WorkerHash(w)
  \/ WorkerDecrement(w)

NextPool ==
  \/ \E n \in {PoolThreads} : PoolInit(n)
  \/ \E count \in PoolCounts : HashParallelEnter(count)
  \/ HashParallelPush
  \/ HashParallelWait
  \/ CleanupShutdown
  \/ CleanupBroadcast
  \/ CleanupJoin
  \/ \E w \in 1..MAX_THREADS : WorkerTestShutdown(w)
  \/ \E w \in 1..MAX_THREADS : WorkerPopLock(w)
  \/ \E w \in 1..MAX_THREADS : WorkerPopTest(w)
  \/ \E w \in 1..MAX_THREADS : WorkerPopWait(w)
  \/ \E w \in 1..MAX_THREADS : WorkerHash(w)
  \/ \E w \in 1..MAX_THREADS : WorkerDecrement(w)

SpecPool == InitPool /\ [][NextPool]_vars

\* every thread that can take a step eventually takes one
SpecPoolFair ==
  /\ SpecPool
  /\ WF_vars(MainSteps)
  /\ \A w \in 1..PoolThreads : WF_vars(WorkerSteps(w))


\* C25: once sm3_parallel_cleanup has set the shutdown flag and broadcast
\* not_empty, every worker leaves work_queue_pop and exits, and the
\* pthread_join loop of cleanup comes to its end, whatever the workers were
\* doing at the time (fair scheduling assumed).
C25_CleanupTerminates ==
  (pc = "joining") ~>
     (pc = "cleaned" /\ \A w \in DOMAIN pool_workers : pool_workers[w].at = "exit")

\* C25 as a property of states: after the broadcast no worker is blocked
\* in pthread_cond_wait on not_empty, which nothing signals any more.
C25_NoWorkerLeftWaiting ==
  (pc = "joining") => (NotEmptyWaiters = {})

\* a cleanup that found every worker waiting, woke them all and joined them
C25_CleanRun ==
  /\ pc = "cleaned"
  /\ \A w \in DOMAIN pool_workers : pool_workers[w].at = "exit"

\* tasks whose hash has not been written yet
Unhashed == {i \in DOMAIN p_hashes : p_hashes[i].hash = Unwritten}

\* workers between sm3_hash and the decrement of active_threads
Undecremented == {w \in DOMAIN pool_workers : pool_workers[w].at = "decrement"}

\* C26: with an initialized pool and one caller, during and after an
\* sm3_hash_parallel of count >= 4 the queue size is within 0..capacity,
\* no task is popped twice, active_threads is never negative and is the
\* number of tasks not yet finished (0 exactly when all are), and the call
\* returns only when every task has been popped by one worker and its
\* hash written.
C26_ParallelHashCompletes ==
  (pc # "start") =>
     /\ g_work_queue.size >= 0
     /\ g_work_queue.size <= g_work_queue.capacity
     /\ g_thread_pool.active_threads >= 0
     /\ \A i \in DOMAIN p_hashes : p_hashes[i].pops <= 1
     /\ (p_count >= 4) =>
          /\ g_thread_pool.active_threads
               = Cardinality(Unhashed) + Cardinality(Undecremented)
          /\ (g_thread_pool.active_threads = 0) <=> (Unhashed = {} /\ Undecremented = {})
          /\ (pc \in {"returned", "shutdown_set", "joining", "cleaned"}) =>
               (\A i \in DOMAIN p_hashes :
                   p_hashes[i].pops = 1 /\ p_hashes[i].hash = [sm3 |-> i - 1])

\* a call with count = MaxCount has returned: every hash is written and
\* active_threads is 0
C26_Witness ==
  /\ pc = "returned"
  /\ p_count = MaxCount
  /\ p_count >= 4
  /\ Len(p_hashes) = MaxCount
  /\ \A i \in DOMAIN p_hashes : p_hashes[i].pops = 1 /\ p_hashes[i].hash = [sm3 |-> i - 1]
  /\ g_thread_pool.active_threads = 0
  /\ g_work_queue.size = 0

\* the queue is full and the caller waits on not_full
C26_WitnessFull ==
  /\ pc = "push_wait"
  /\ g_work_queue.size = g_work_queue.capacity

(***************************************************************************)
(* The T transform: direct against table-driven (project1/debug_opt.c)     *)
(***************************************************************************)
\* bytes the four positions of temp1 are drawn from
TBytes == {0, 1, 255}

InitSm4T ==
  /\ pc = "start"
  /\ temp1 \in {<<(a * 256) + b, (c * 256) + d>> : a \in TBytes, b \in TBytes,
                                                  c \in TBytes, d \in TBytes}
  /\ temp2_basic = NoWord
  /\ temp2_opt = NoWord
  /\ InitIdleBlock
  /\ InitIdleFirstUse
  /\ InitIdleHash
  /\ InitIdleGcm
  /\ InitIdleSimd

\* temp2_basic = sm4_l(sm4_tau(temp1))
TBasic ==
  /\ pc = "start"
  /\ temp2_basic' = sm4_l(sm4_tau(temp1))
  /\ pc' = "basic"
  /\ UNCHANGED <<hashvars, temp1, temp2_opt, blockvars, firstusevars,
                 gcmvars, simdvars>>

\* sm4_encrypt_optimized(...) to fill the tables; temp2_opt = sm4_t_optimized(temp1)
TOptimized ==
  /\ pc = "basic"
  /\ temp2_opt' = sm4_t_optimized(temp1)
  /\ pc' = "compared"
  /\ UNCHANGED <<hashvars, temp1, temp2_basic, blockvars, firstusevars,
                 gcmvars, simdvars>>

NextSm4T ==
  \/ TBasic
  \/ TOptimized

SpecSm4T == InitSm4T /\ [][NextSm4T]_vars

\* L(S(b) << (24 - 8k)): what table k has to hold at index b
TableEntryDirect(k, b) == sm4_l(ByteAtPos(sm4_sbox[b + 1], 3 - k))

\* C8: with the tables sm4_init_tables leaves, sm4_t_optimized(x) equals
\* sm4_l(sm4_tau(x)) for every word x.
C8_TableTransformEqualsDirect == (pc = "compared") => (temp2_opt = temp2_basic)

\* C8, the same claim table by table: T_k[b] = L(S(b) << (24 - 8k)) at the
\* four bytes of the word at hand.
C8_TablesHoldDirectEntries ==
  (pc = "compared") =>
     /\ sm4_t0(temp1[1] \div 256) = TableEntryDirect(0, temp1[1] \div 256)
     /\ sm4_t1(temp1[1] % 256) = TableEntryDirect(1, temp1[1] % 256)
     /\ sm4_t2(temp1[2] \div 256) = TableEntryDirect(2, temp1[2] \div 256)
     /\ sm4_t3(temp1[2] % 256) = TableEntryDirect(3, temp1[2] % 256)

(***************************************************************************)
(* Block encryption and decryption with the table-driven functions         *)
(* (project1/tests/test_sm4.c, test_optimized_encryption)                  *)
(***************************************************************************)
\* the key and the plaintext of the standard vector of tests/test_sm4.c
VectorBlock == <<1, 35, 69, 103, 137, 171, 205, 239, 254, 220, 186, 152, 118, 84, 50, 16>>

BlockKeys ==
  {VectorBlock, [i \in 1..16 |-> 0], [i \in 1..16 |-> 255], Msg(16, 1), Msg(16, 7)}

BlockPlaintexts ==
  {VectorBlock, [i \in 1..16 |-> 0], [i \in 1..16 |-> 255], Msg(16, 3), Msg(16, 11),
   Msg(16, 200)}

InitSm4Block ==
  /\ pc = "start"
  /\ t_key \in BlockKeys
  /\ t_plaintext \in BlockPlaintexts
  /\ t_ctx = <<>>
  /\ t_output = NoBytes
  /\ t_decrypted = NoBytes
  /\ temp1 = NoWord
  /\ temp2_basic = NoWord
  /\ temp2_opt = NoWord
  /\ InitIdleFirstUse
  /\ InitIdleHash
  /\ InitIdleGcm
  /\ InitIdleSimd

\* the encryption key schedule on ctx
BlockSetkeyEnc ==
  /\ pc = "start"
  /\ t_ctx' = sm4_setkey_enc_opt(t_key)
  /\ pc' = "enc_keys"
  /\ UNCHANGED <<hashvars, temp1, temp2_basic, temp2_opt, t_key, t_plaintext,
                 t_output, t_decrypted, firstusevars,
                 gcmvars, simdvars>>

\* sm4_encrypt_optimized(&ctx, plaintext, output)
BlockEncrypt ==
  /\ pc = "enc_keys"
  /\ t_output' = sm4_encrypt_optimized(t_ctx, t_plaintext)
  /\ pc' = "encrypted"
  /\ UNCHANGED <<hashvars, temp1, temp2_basic, temp2_opt, t_key, t_plaintext,
                 t_ctx, t_decrypted, firstusevars,
                 gcmvars, simdvars>>

\* the decryption key schedule on the same ctx
BlockSetkeyDec ==
  /\ pc = "encrypted"
  /\ t_ctx' = sm4_setkey_dec_opt(t_key)
  /\ pc' = "dec_keys"
  /\ UNCHANGED <<hashvars, temp1, temp2_basic, temp2_opt, t_key, t_plaintext,
                 t_output, t_decrypted, firstusevars,
                 gcmvars, simdvars>>

\* sm4_decrypt_optimized(&ctx, output, decrypted)
BlockDecrypt ==
  /\ pc = "dec_keys"
  /\ t_decrypted' = sm4_decrypt_optimized(t_ctx, t_output)
  /\ pc' = "decrypted"
  /\ UNCHANGED <<hashvars, temp1, temp2_basic, temp2_opt, t_key, t_plaintext,
                 t_ctx, t_output, firstusevars,
                 gcmvars, simdvars>>

NextSm4Block ==
  \/ BlockSetkeyEnc
  \/ BlockEncrypt
  \/ BlockSetkeyDec
  \/ BlockDecrypt

SpecSm4Block == InitSm4Block /\ [][NextSm4Block]_vars

\* C11: the block sm4_encrypt_optimized produced under the encryption
\* schedule of a key decrypts, under the decryption schedule of that key
\* (the same round keys reversed), to the plaintext block it was made
\* from, with the tables sm4_init_tables leaves.
C11_DecryptInvertsEncryptOptimized ==
  (pc = "decrypted") => (t_decrypted = t_plaintext)

\* a vector whose round trip went through a ciphertext other than the
\* plaintext
C11_Witness ==
  /\ pc = "decrypted"
  /\ t_key = VectorBlock
  /\ t_plaintext = VectorBlock
  /\ t_output # t_plaintext
  /\ t_decrypted = t_plaintext


(***************************************************************************)
(* First use of the table-driven cipher by two threads at once.  Each      *)
(* thread calls sm4_encrypt_optimized on a block of its own with the round *)
(* keys of the vector key; the tables and the flag are the statics of      *)
(* sm4_optimized.c, shared and unsynchronised.                             *)
(***************************************************************************)
EncThreads == {1, 2}

FirstUseKeys == sm4_setkey_enc_optimized(VectorBlock)

FirstUseInputs == {VectorBlock, Msg(16, 3)}

InitFirstUse ==
  /\ pc = "start"
  /\ sm4_tables = [r \in 1..TableSteps |-> "zero"]
  /\ sm4_tables_initialized = 0
  /\ enc_threads \in
       [EncThreads -> {[at |-> "call", loop |-> 0, step |-> 0, i |-> 0,
                        input |-> b, x |-> <<>>, output |-> NoBytes] :
                         b \in FirstUseInputs}]
  /\ temp1 = NoWord
  /\ temp2_basic = NoWord
  /\ temp2_opt = NoWord
  /\ InitIdleBlock
  /\ InitIdleHash
  /\ InitIdleGcm
  /\ InitIdleSimd

\* sm4_init_tables(): if (sm4_tables_initialized) return;
EncTestFlag(t) ==
  /\ enc_threads[t].at = "call"
  /\ enc_threads' =
       [enc_threads EXCEPT ![t] =
          IF sm4_tables_initialized # 0
          THEN [@ EXCEPT !.at = "rounds", !.x = LoadWords(enc_threads[t].input)]
          ELSE [@ EXCEPT !.at = "fill", !.loop = 1]]
  /\ UNCHANGED <<pc, hashvars, temp1, temp2_basic, temp2_opt, blockvars, sm4_tables,
                 sm4_tables_initialized, gcmvars, simdvars>>

\* one run of iterations of one of the three loops of sm4_init_tables
EncFillTables(t) ==
  /\ enc_threads[t].at = "fill"
  /\ sm4_tables' =
       [sm4_tables EXCEPT ![enc_threads[t].step + 1] =
          IF enc_threads[t].loop = 1 THEN "first" ELSE "final"]
  /\ enc_threads' =
       [enc_threads EXCEPT ![t] =
          IF @.step + 1 < TableSteps THEN [@ EXCEPT !.step = @ + 1]
          ELSE IF @.loop < 3 THEN [@ EXCEPT !.step = 0, !.loop = @ + 1]
          ELSE [@ EXCEPT !.step = 0, !.at = "filled"]]
  /\ UNCHANGED <<pc, hashvars, temp1, temp2_basic, temp2_opt, blockvars,
                 sm4_tables_initialized, gcmvars, simdvars>>

\* sm4_tables_initialized = 1; back in sm4_encrypt_optimized, the input is loaded
EncSetFlag(t) ==
  /\ enc_threads[t].at = "filled"
  /\ sm4_tables_initialized' = 1
  /\ enc_threads' =
       [enc_threads EXCEPT ![t] = [@ EXCEPT !.at = "rounds", !.x = LoadWords(enc_threads[t].input)]]
  /\ UNCHANGED <<pc, hashvars, temp1, temp2_basic, temp2_opt, blockvars, sm4_tables,
                 gcmvars, simdvars>>

\* the next RoundsPerStep rounds; after the last round the words are
\* reversed and stored to output
EncRounds(t) ==
  /\ enc_threads[t].at = "rounds"
  /\ enc_threads' =
       [enc_threads EXCEPT ![t] =
          IF @.i + RoundsPerStep < SM4_ROUNDS
          THEN [@ EXCEPT !.i = @ + RoundsPerStep,
                         !.x = RoundsOn(sm4_tables, enc_threads[t].x, FirstUseKeys,
                                        enc_threads[t].i,
                                        enc_threads[t].i + RoundsPerStep)]
          ELSE [@ EXCEPT !.i = SM4_ROUNDS,
                         !.at = "done",
                         !.output =
                            StoreWords(ReverseWords(
                              RoundsOn(sm4_tables, enc_threads[t].x, FirstUseKeys,
                                       enc_threads[t].i, SM4_ROUNDS)))]]
  /\ UNCHANGED <<pc, hashvars, temp1, temp2_basic, temp2_opt, blockvars, sm4_tables,
                 sm4_tables_initialized, gcmvars, simdvars>>

NextFirstUse ==
  \/ \E t \in EncThreads : EncTestFlag(t)
  \/ \E t \in EncThreads : EncFillTables(t)
  \/ \E t \in EncThreads : EncSetFlag(t)
  \/ \E t \in EncThreads : EncRounds(t)

SpecFirstUse == InitFirstUse /\ [][NextFirstUse]_vars

\* the other thread
OtherThread(t) == 3 - t

\* C22: a call of sm4_encrypt_optimized made while another thread makes its
\* first call returns what the call returns in a sequential run: the output
\* is a function of the round keys and the input block alone.
C22_ConcurrentFirstUseIsPure ==
  \A t \in EncThreads :
     (enc_threads[t].at = "done") =>
        (enc_threads[t].output = sm4_encrypt_optimized(FirstUseKeys, enc_threads[t].input))

\* C22, the second statement: no round of a call runs on tables that hold
\* a value of the first loop of a concurrently running sm4_init_tables.
C22_RoundsSeeFinalTables ==
  \A t \in EncThreads :
     (enc_threads[t].at = "rounds") =>
        (\A r \in 1..TableSteps : sm4_tables[r] = "final")

\* a thread that ran alone through its first call, the sequential run the
\* claim compares with
C22_SequentialRun ==
  \E t \in EncThreads :
     /\ enc_threads[t].at = "done"
     /\ enc_threads[OtherThread(t)].at = "call"
     /\ enc_threads[t].output = sm4_encrypt_optimized(FirstUseKeys, enc_threads[t].input)

(***************************************************************************)
(* SM4-GCM: sm4_gcm_encrypt followed by sm4_gcm_decrypt with the same key  *)
(* and IV.  pc is the position inside the call in progress, one step per   *)
(* function the call makes; an argument is drawn when the call first reads *)
(* it.  Before decryption at most one bit of the AAD, of the ciphertext or *)
(* of the tag is flipped.                                                  *)
(***************************************************************************)
\* key of the benchmarks of sm4_gcm.c and sm4_gcm_simd.c
BenchmarkKey ==
  <<1, 35, 69, 103, 137, 171, 205, 239, 254, 220, 186, 152, 118, 84, 50, 16>>

\* the bytes 0, 1, .., n - 1 (the IV of the benchmarks for n = 12)
Iota(n) == [i \in 1..n |-> i - 1]

Keys == {Msg(16, 0), BenchmarkKey}

Ivs == {Iota(12), Iota(8)}

Aads == {NoBytes, Abc}

Plaintexts == {NoBytes, Msg(7, 1), Msg(17, 1)}

TagLens == {1, 16}

\* the bit flipped, and the offsets at which it is flipped in a buffer
FlipMasks == {64}

FlipOffsets(buf) == {5, Len(buf) - 1} \cap (0..(Len(buf) - 1))

Flip(buf, offset, mask) == [buf EXCEPT ![offset + 1] = Xor8(@, mask)]

\* the buffer itself, and while nothing has been flipped yet its one-bit flips
Received(buf) ==
  {buf} \cup (IF tampered = "none"
              THEN {Flip(buf, o, m) : o \in FlipOffsets(buf), m \in FlipMasks}
              ELSE {})

\* memset(plaintext, 0, ct_len)
ClearedPlaintext(ct_len) == [k \in 1..ct_len |-> 0]

InitGcm ==
  /\ pc = "start"
  /\ InitIdleHash
  /\ InitIdleSm4
  /\ InitIdleGcm
  /\ InitIdleSimd

\* sm4_gcm_encrypt: sm4_gcm_init(&ctx, key) on a fresh stack context
EncInit ==
  /\ pc = "start"
  /\ \E k \in Keys, stack_byte \in StackBytes :
       /\ key' = k
       /\ gctx' = sm4_gcm_init(StackContext(stack_byte), k)
  /\ pc' = "e_init"
  /\ UNCHANGED <<hashvars, sm4vars, ordervars, simdvars, iv, aad, plaintext, tag_len, ciphertext, tag, decvars>>

\* sm4_gcm_encrypt: sm4_gcm_starts(&ctx, SM4_GCM_ENCRYPT, iv, iv_len)
EncStarts ==
  /\ pc = "e_init"
  /\ \E v \in Ivs :
       /\ iv' = v
       /\ gctx' = sm4_gcm_starts(gctx, SM4_GCM_ENCRYPT, v)
  /\ pc' = "e_starts"
  /\ UNCHANGED <<hashvars, sm4vars, ordervars, simdvars, key, aad, plaintext, tag_len, ciphertext, tag, decvars>>

\* sm4_gcm_encrypt: sm4_gcm_update_ad(&ctx, aad, aad_len)
EncUpdateAd ==
  /\ pc = "e_starts"
  /\ \E a \in Aads :
       /\ aad' = a
       /\ gctx' = sm4_gcm_update_ad(gctx, a)
  /\ pc' = "e_ad"
  /\ UNCHANGED <<hashvars, sm4vars, ordervars, simdvars, key, iv, plaintext, tag_len, ciphertext, tag, decvars>>

\* sm4_gcm_encrypt: sm4_gcm_update(&ctx, pt_len, plaintext, ciphertext)
EncUpdate ==
  /\ pc = "e_ad"
  /\ \E p \in Plaintexts :
       LET u == sm4_gcm_update(gctx, p)
       IN /\ plaintext' = p
          /\ gctx' = u.ctx
          /\ ciphertext' = u.output
  /\ pc' = "e_update"
  /\ UNCHANGED <<hashvars, sm4vars, ordervars, simdvars, key, iv, aad, tag_len, tag, decvars>>

\* sm4_gcm_encrypt: sm4_gcm_finish(&ctx, tag, tag_len) and return 0
EncFinish ==
  /\ pc = "e_update"
  /\ \E t \in TagLens :
       LET f == sm4_gcm_finish(gctx, t)
       IN /\ tag_len' = t
          /\ gctx' = f.ctx
          /\ tag' = f.tag
  /\ pc' = "encrypted"
  /\ UNCHANGED <<hashvars, sm4vars, ordervars, simdvars, key, iv, aad, plaintext, ciphertext, decvars>>

\* sm4_gcm_decrypt: sm4_gcm_init(&ctx, key) on a fresh stack context
DecInit ==
  /\ pc = "encrypted"
  /\ \E stack_byte \in StackBytes :
       gctx' = sm4_gcm_init(StackContext(stack_byte), key)
  /\ pc' = "d_init"
  /\ UNCHANGED <<hashvars, sm4vars, ordervars, simdvars, gcminputs, ciphertext, tag, decvars>>

\* sm4_gcm_decrypt: sm4_gcm_starts(&ctx, SM4_GCM_DECRYPT, iv, iv_len)
DecStarts ==
  /\ pc = "d_init"
  /\ gctx' = sm4_gcm_starts(gctx, SM4_GCM_DECRYPT, iv)
  /\ pc' = "d_starts"
  /\ UNCHANGED <<hashvars, sm4vars, ordervars, simdvars, gcminputs, ciphertext, tag, decvars>>

\* sm4_gcm_decrypt: sm4_gcm_update_ad(&ctx, aad, aad_len)
DecUpdateAd ==
  /\ pc = "d_starts"
  /\ \E a \in Received(aad) :
       /\ d_aad' = a
       /\ tampered' = IF a # aad THEN "aad" ELSE tampered
       /\ gctx' = sm4_gcm_update_ad(gctx, a)
  /\ pc' = "d_ad"
  /\ UNCHANGED <<hashvars, sm4vars, ordervars, simdvars, gcminputs, ciphertext, tag,
                 d_ciphertext, d_tag, d_plaintext, computed_tag, ret>>

\* sm4_gcm_decrypt: sm4_gcm_update(&ctx, ct_len, ciphertext, plaintext)
DecUpdate ==
  /\ pc = "d_ad"
  /\ \E c \in Received(ciphertext) :
       LET u == sm4_gcm_update(gctx, c)
       IN /\ d_ciphertext' = c
          /\ tampered' = IF c # ciphertext THEN "ciphertext" ELSE tampered
          /\ gctx' = u.ctx
          /\ d_plaintext' = u.output
  /\ pc' = "d_update"
  /\ UNCHANGED <<hashvars, sm4vars, ordervars, simdvars, gcminputs, ciphertext, tag,
                 d_aad, d_tag, computed_tag, ret>>

\* sm4_gcm_decrypt: sm4_gcm_finish(&ctx, computed_tag, tag_len)
DecFinish ==
  /\ pc = "d_update"
  /\ LET f == sm4_gcm_finish(gctx, tag_len)
     IN /\ gctx' = f.ctx
        /\ computed_tag' = f.tag
  /\ pc' = "d_finish"
  /\ UNCHANGED <<hashvars, sm4vars, ordervars, simdvars, gcminputs, ciphertext, tag,
                 tampered, d_aad, d_ciphertext, d_tag, d_plaintext, ret>>

\* sm4_gcm_decrypt: the comparison with the supplied tag, the memset on a
\* difference, and the return
DecCompare ==
  /\ pc = "d_finish"
  /\ \E t \in Received(tag) :
       LET diff == TagDiff(t, computed_tag, tag_len)
       IN /\ d_tag' = t
          /\ tampered' = IF t # tag THEN "tag" ELSE tampered
          /\ d_plaintext' = IF diff # 0 THEN ClearedPlaintext(Len(d_ciphertext))
                            ELSE d_plaintext
          /\ ret' = IF diff # 0 THEN -1 ELSE 0
  /\ pc' = "decrypted"
  /\ UNCHANGED <<hashvars, sm4vars, ordervars, simdvars, gcminputs, encvars,
                 d_aad, d_ciphertext, computed_tag>>

NextGcm ==
  \/ EncInit
  \/ EncStarts
  \/ EncUpdateAd
  \/ EncUpdate
  \/ EncFinish
  \/ DecInit
  \/ DecStarts
  \/ DecUpdateAd
  \/ DecUpdate
  \/ DecFinish
  \/ DecCompare

SpecGcm == InitGcm /\ [][NextGcm]_vars

\* C5: decrypting what sm4_gcm_encrypt returned, with the same key, IV and
\* AAD and nothing flipped, returns 0 and writes the original plaintext
C5_DecryptInvertsEncrypt ==
  (pc = "decrypted" /\ tampered = "none") => (ret = 0 /\ d_plaintext = plaintext)

\* a round trip with an 8-byte IV, AAD, a partial last block and a 1-byte tag
C5_Witness ==
  /\ pc = "decrypted"
  /\ tampered = "none"
  /\ Len(iv) = 8
  /\ Len(aad) = 3
  /\ Len(plaintext) = 17
  /\ tag_len = 1
  /\ d_plaintext = plaintext

\* C4: when the supplied tag differs from the recomputed one in a compared
\* byte, sm4_gcm_decrypt returns -1 with ct_len zero bytes in the plaintext
\* buffer; it returns -1 only then, and 0 otherwise
C4_MismatchClearsPlaintext ==
  (pc = "decrypted") =>
    IF \E i \in 1..tag_len : d_tag[i] # computed_tag[i]
    THEN /\ ret = -1
         /\ Len(d_plaintext) = Len(d_ciphertext)
         /\ \A k \in 1..Len(d_plaintext) : d_plaintext[k] = 0
    ELSE ret = 0

\* a rejected 17-byte ciphertext whose tag differs in byte 5 only
C4_Witness ==
  /\ pc = "decrypted"
  /\ ret = -1
  /\ Len(d_ciphertext) = 17
  /\ tag_len = 16
  /\ d_tag[6] # computed_tag[6]
  /\ d_tag[1] = computed_tag[1]
  /\ d_plaintext = ClearedPlaintext(17)

\* C3 as stated: after any single bit flip in the ciphertext, the tag or
\* the AAD, sm4_gcm_decrypt returns -1, for every tag length
C3_EveryFlipRejected ==
  (pc = "decrypted" /\ tampered # "none") => (ret = -1)

\* C3 amended: a flip in a compared tag byte is always rejected, and a flip
\* in the ciphertext or the AAD is rejected when the tag has all 16 bytes
C3_TagFlipOrFullTagRejected ==
  (pc = "decrypted" /\ (tampered = "tag" \/ (tampered # "none" /\ tag_len = 16)))
    => (ret = -1 /\ d_plaintext = ClearedPlaintext(Len(d_ciphertext)))

\* a ciphertext flip under a 16-byte tag, and it is rejected
C3_Witness ==
  /\ pc = "decrypted"
  /\ tampered = "ciphertext"
  /\ tag_len = 16
  /\ Len(d_ciphertext) = 7
  /\ ret = -1

\* a ciphertext flip under a 1-byte tag that is accepted: 0 is returned and
\* the plaintext buffer holds something other than the plaintext
C3_AcceptedForgery ==
  /\ pc = "decrypted"
  /\ tampered = "ciphertext"
  /\ tag_len = 1
  /\ ret = 0
  /\ d_plaintext # plaintext

(***************************************************************************)
(* The streaming functions called one by one on a context, in and out of   *)
(* the order sm4_gcm_encrypt calls them in (project1/src/sm4_gcm.c)        *)
(***************************************************************************)
MaxCalls == 4

\* a 16-byte IV from which sm4_gcm_starts derives, under BenchmarkKey,
\* J0 = 00 .. 00 ff ff ff ff
WrapIv == <<83, 77, 70, 218, 242, 216, 233, 127, 105, 136, 50, 54, 210, 111, 12, 190>>

AadChunkLens == {20}

UpdateLens == {1, 16, 32}

\* the phases in which the call order allows sm4_gcm_update_ad
AadAllowed == {"started", "aad"}

\* the phases in which it allows sm4_gcm_update and sm4_gcm_finish
DataAllowed == {"started", "aad", "data"}

InitGcmCalls ==
  /\ pc = "start"
  /\ key = BenchmarkKey
  /\ iv \in {Iota(12), WrapIv}
  /\ aad = NoBytes
  /\ plaintext = NoBytes
  /\ tag_len = 16
  /\ gctx = NoContext
  /\ ciphertext = NoBytes
  /\ tag = NoBytes
  /\ tampered = "none"
  /\ d_aad = NoBytes
  /\ d_ciphertext = NoBytes
  /\ d_tag = NoBytes
  /\ d_plaintext = NoBytes
  /\ computed_tag = NoBytes
  /\ ret = 0
  /\ InitIdleOrder
  /\ InitIdleHash
  /\ InitIdleSm4
  /\ InitIdleSimd

\* sm4_gcm_init(&ctx, key)
CallInit ==
  /\ pc = "start"
  /\ gctx' = sm4_gcm_init(gctx, key)
  /\ phase' = "init"
  /\ call' = "init"
  /\ call_ret' = 0
  /\ pc' = "calls"
  /\ UNCHANGED <<hashvars, sm4vars, simdvars, gcminputs, ciphertext, tag, decvars, calls>>

\* sm4_gcm_starts(&ctx, SM4_GCM_ENCRYPT, iv, iv_len), first or after a finish
CallStarts ==
  /\ pc = "calls"
  /\ calls < MaxCalls
  /\ phase \in {"init", "finished"}
  /\ gctx' = sm4_gcm_starts(gctx, SM4_GCM_ENCRYPT, iv)
  /\ phase' = "started"
  /\ calls' = calls + 1
  /\ call' = "starts"
  /\ call_ret' = 0
  /\ UNCHANGED <<pc, hashvars, sm4vars, simdvars, gcminputs, ciphertext, tag, decvars>>

\* sm4_gcm_update_ad(&ctx, aad, n), whatever was called before
CallUpdateAd(n) ==
  /\ pc = "calls"
  /\ calls < MaxCalls
  /\ gctx' = sm4_gcm_update_ad(gctx, Msg(n, 5))
  /\ aad' = Msg(n, 5)
  /\ calls' = calls + 1
  /\ call' = "update_ad"
  /\ call_ret' = 0
  /\ IF phase \in AadAllowed
     THEN /\ phase' = "aad"
          /\ pc' = pc
     ELSE /\ phase' = phase
          /\ pc' = "misused"
  /\ UNCHANGED <<hashvars, sm4vars, simdvars, key, iv, plaintext, tag_len,
                 ciphertext, tag, decvars>>

\* sm4_gcm_update(&ctx, n, input, output), whatever was called before
CallUpdate(n) ==
  /\ pc = "calls"
  /\ calls < MaxCalls
  /\ gctx' = sm4_gcm_update(gctx, Msg(n, 9)).ctx
  /\ ciphertext' = sm4_gcm_update(gctx, Msg(n, 9)).output
  /\ plaintext' = Msg(n, 9)
  /\ calls' = calls + 1
  /\ call' = "update"
  /\ call_ret' = 0
  /\ IF phase \in DataAllowed
     THEN /\ phase' = "data"
          /\ pc' = pc
     ELSE /\ phase' = phase
          /\ pc' = "misused"
  /\ UNCHANGED <<hashvars, sm4vars, simdvars, key, iv, aad, tag_len, tag, decvars>>

\* sm4_gcm_finish(&ctx, tag, tag_len), whatever was called before
CallFinish ==
  /\ pc = "calls"
  /\ calls < MaxCalls
  /\ phase # "finished"
  /\ gctx' = sm4_gcm_finish(gctx, tag_len).ctx
  /\ tag' = sm4_gcm_finish(gctx, tag_len).tag
  /\ calls' = calls + 1
  /\ call' = "finish"
  /\ call_ret' = 0
  /\ IF phase \in DataAllowed
     THEN /\ phase' = "finished"
          /\ pc' = pc
     ELSE /\ phase' = phase
          /\ pc' = "misused"
  /\ UNCHANGED <<hashvars, sm4vars, simdvars, gcminputs, ciphertext, decvars>>

NextGcmCalls ==
  \/ CallInit
  \/ CallStarts
  \/ \E n \in AadChunkLens : CallUpdateAd(n)
  \/ \E n \in UpdateLens : CallUpdate(n)
  \/ CallFinish

SpecGcmCalls == InitGcmCalls /\ [][NextGcmCalls]_vars

\* C15: a call made out of the order init, start, update_ad*, update*,
\* finish (sm4_gcm_update_ad after sm4_gcm_update, an update before
\* sm4_gcm_starts, sm4_gcm_finish before any sm4_gcm_starts, an update after
\* sm4_gcm_finish) does not return success (0) and leaves the GHASH
\* accumulator and the two byte counters of the context as they were.
C15_OutOfOrderCallRefused ==
  [][(pc = "calls" /\ pc' = "misused")
       => (/\ call_ret' # 0
           /\ gctx'.ghash_state = gctx.ghash_state
           /\ gctx'.aad_len = gctx.aad_len
           /\ gctx'.ciphertext_len = gctx.ciphertext_len)]_vars

\* C15, the return value alone
C15_OutOfOrderCallFails == (pc = "misused") => (call_ret # 0)

\* a < b for two 16-byte blocks read as 128-bit big-endian integers
Less128(a, b) ==
  \E k \in 1..16 : a[k] < b[k] /\ \A j \in 1..(k - 1) : a[j] = b[j]

\* the blocks an update of n bytes processes
BlocksOf(n) == (n + 15) \div 16

\* an update call made in order has just returned
UpdateReturned == pc' = "calls" /\ call' = "update" /\ calls' = calls + 1

\* whether the last four bytes of counter pass ff ff ff ff within n blocks
WrapsWithin(counter, n) ==
  LoadBE32(counter, 12)[1] = 65535 /\ LoadBE32(counter, 12)[2] + n > 65535

\* C16 as stated: the counter, read as a 128-bit big-endian integer, is
\* larger after the blocks of an update call than before them, for every J0.
C16_CounterIncreases128 ==
  [][UpdateReturned => Less128(gctx.counter, gctx'.counter)]_vars

\* C16, amended: sm4_gcm_update increments the last four bytes of the
\* counter as a 32-bit big-endian integer modulo 2^32, once per block, and
\* leaves its first twelve bytes alone; the counter increases with each
\* block unless that word passes ff ff ff ff.
C16_CounterIncrements32 ==
  [][UpdateReturned =>
       (/\ SubSeq(gctx'.counter, 1, 12) = SubSeq(gctx.counter, 1, 12)
        /\ LoadBE32(gctx'.counter, 12) =
             WAdd(LoadBE32(gctx.counter, 12),
                  <<0, BlocksOf(gctx'.ciphertext_len - gctx.ciphertext_len)>>)
        /\ WrapsWithin(gctx.counter, BlocksOf(gctx'.ciphertext_len - gctx.ciphertext_len))
             \/ Less128(gctx.counter, gctx'.counter))]_vars

\* two blocks were processed from J0 = 00 .. 00 ff ff ff ff: the counter is
\* 00 .. 00 00 00 00 01
C16_Witness ==
  /\ pc = "calls"
  /\ call = "update"
  /\ phase = "data"
  /\ iv = WrapIv
  /\ gctx.j0 = <<0, 0, 0, 0, 0, 0, 0, 0, 0, 0, 0, 0, 255, 255, 255, 255>>
  /\ gctx.ciphertext_len = 32
  /\ gctx.counter = <<0, 0, 0, 0, 0, 0, 0, 0, 0, 0, 0, 0, 0, 0, 0, 1>>

\* blocks were processed from the J0 of a 12-byte IV
C16_WitnessIv12 ==
  /\ pc = "calls"
  /\ call = "update"
  /\ phase = "data"
  /\ Len(iv) = 12
  /\ gctx.ciphertext_len = 48
  /\ gctx.counter = iv \o <<0, 0, 0, 4>>


\* a call of one of the three functions that follow sm4_gcm_starts has returned
DataCallReturned ==
  call' \in {"update_ad", "update", "finish"} /\ calls' = calls + 1

\* C23: no call of sm4_gcm_update_ad, sm4_gcm_update or sm4_gcm_finish
\* changes J0 or the hash subkey H of the context; sm4_gcm_starts sets J0
\* from H and the IV and leaves H as sm4_gcm_init derived it from the key.
C23_J0AndHKept ==
  [][/\ DataCallReturned => (gctx'.j0 = gctx.j0 /\ gctx'.h = gctx.h)
     /\ (call' = "starts" /\ calls' = calls + 1)
          => (gctx'.h = gctx.h /\ gctx'.j0 = ComputeJ0(gctx.h, iv))
     /\ (pc # "start")
          => (gctx.h = sm4_encrypt_basic(sm4_setkey_enc(key), Zero16))]_vars

\* AAD, data and the tag have gone through the context after
\* sm4_gcm_starts: J0 is still the IV followed by 00 00 00 01, while the
\* counter has moved on
C23_Witness ==
  /\ pc = "calls"
  /\ phase = "finished"
  /\ calls = MaxCalls
  /\ gctx.aad_len > 0
  /\ gctx.ciphertext_len > 0
  /\ Len(tag) = 16
  /\ Len(iv) = 12
  /\ gctx.j0 = iv \o <<0, 0, 0, 1>>
  /\ gctx.counter # gctx.j0
  /\ gctx.h = sm4_encrypt_basic(sm4_setkey_enc(key), Zero16)


\* the bytes of block k (from 1) of the data of an update call
BlockBytes(data, k) ==
  SubSeq(data, (16 * (k - 1)) + 1,
         IF 16 * k < Len(data) THEN 16 * k ELSE Len(data))

\* C28: between sm4_gcm_starts and sm4_gcm_finish the counter values
\* sm4_gcm_update encrypts for its data blocks are J0 advanced 1, 2, ..., n
\* times: each differs from J0, whose encryption masks the tag, and from
\* all the others, so no data block is XORed with Encrypt(key, J0).
C28_DataCountersAvoidJ0 ==
  [][UpdateReturned =>
       \E n \in 0..(2 * MaxCalls) :
          /\ gctx.counter = AdvanceCounter(gctx.j0, n)
          /\ gctx'.counter = AdvanceCounter(gctx.j0, n + BlocksOf(Len(plaintext')))
          /\ gctx'.j0 = gctx.j0
          /\ \A k \in 1..BlocksOf(Len(plaintext')) :
                BlockBytes(ciphertext', k) =
                  XorKeystream(plaintext', 16 * (k - 1),
                               sm4_encrypt_basic(gctx.rk, AdvanceCounter(gctx.j0, n + k)))
          /\ \A a \in 1..(n + BlocksOf(Len(plaintext'))) :
                /\ AdvanceCounter(gctx.j0, a) # gctx.j0
                /\ \A c \in 1..(a - 1) :
                      AdvanceCounter(gctx.j0, a) # AdvanceCounter(gctx.j0, c)]_vars

\* update calls have processed five blocks or more from a J0 that ends in
\* ff ff ff ff: the counter has wrapped and gone on without meeting J0
C28_Witness ==
  /\ pc = "calls"
  /\ call = "update"
  /\ phase = "data"
  /\ iv = WrapIv
  /\ LoadBE32(gctx.j0, 12) = <<65535, 65535>>
  /\ \E n \in 5..(2 * MaxCalls) : gctx.counter = AdvanceCounter(gctx.j0, n)
  /\ gctx.counter # gctx.j0

\* the same from the J0 of a 12-byte IV, the last call on a partial block
C28_WitnessIv12 ==
  /\ pc = "calls"
  /\ call = "update"
  /\ phase = "data"
  /\ Len(iv) = 12
  /\ Len(plaintext) = 1
  /\ gctx.counter = AdvanceCounter(gctx.j0, 4)


(***************************************************************************)
(* sm4_gcm_update fed in chunks: sm4_gcm_init, sm4_gcm_starts in either    *)
(* mode, the data in several sm4_gcm_update calls, sm4_gcm_finish          *)
(***************************************************************************)

\* lengths of the chunks that are not the last one
InnerChunkLens == {16, 32}

\* lengths of the whole data
DataLens == {17, 33, 48}

GcmModes == {SM4_GCM_ENCRYPT, SM4_GCM_DECRYPT}

InitGcmChunks ==
  /\ pc = "start"
  /\ key = BenchmarkKey
  /\ iv \in {Iota(12), WrapIv}
  /\ aad = NoBytes
  /\ plaintext \in {Msg(n, 9) : n \in DataLens}
  /\ tag_len = 16
  /\ gctx = NoContext
  /\ ciphertext = NoBytes
  /\ tag = NoBytes
  /\ tampered = "none"
  /\ d_aad = NoBytes
  /\ d_ciphertext = NoBytes
  /\ d_tag = NoBytes
  /\ d_plaintext = NoBytes
  /\ computed_tag = NoBytes
  /\ ret = 0
  /\ InitIdleOrder
  /\ InitIdleHash
  /\ InitIdleSm4
  /\ InitIdleSimd

\* sm4_gcm_init(&ctx, key)
ChunkInit ==
  /\ pc = "start"
  /\ gctx' = sm4_gcm_init(gctx, key)
  /\ pc' = "chunks"
  /\ phase' = "init"
  /\ UNCHANGED <<hashvars, sm4vars, simdvars, gcminputs, ciphertext, tag, decvars,
                 calls, call, call_ret>>

\* sm4_gcm_starts(&ctx, mode, iv, iv_len)
ChunkStarts(mode) ==
  /\ pc = "chunks"
  /\ phase = "init"
  /\ gctx' = sm4_gcm_starts(gctx, mode, iv)
  /\ phase' = "started"
  /\ call' = "starts"
  /\ UNCHANGED <<pc, hashvars, sm4vars, simdvars, gcminputs, ciphertext, tag, decvars,
                 calls, call_ret>>

\* the next n bytes of the data, after the done bytes already processed
ChunkOf(data, done, n) == SubSeq(data, done + 1, done + n)

\* sm4_gcm_update(&ctx, n, input + fed, output + fed): a chunk of a multiple
\* of 16 bytes, or all the rest of the data
ChunkUpdate(n) ==
  /\ pc = "chunks"
  /\ phase \in {"started", "data"}
  /\ n <= Len(plaintext) - Len(ciphertext)
  /\ n \in InnerChunkLens \/ n = Len(plaintext) - Len(ciphertext)
  /\ gctx' = sm4_gcm_update(gctx, ChunkOf(plaintext, Len(ciphertext), n)).ctx
  /\ ciphertext' = ciphertext
                     \o sm4_gcm_update(gctx, ChunkOf(plaintext, Len(ciphertext), n)).output
  /\ phase' = "data"
  /\ calls' = calls + 1
  /\ call' = "update"
  /\ UNCHANGED <<pc, hashvars, sm4vars, simdvars, gcminputs, tag, decvars, call_ret>>

\* sm4_gcm_finish(&ctx, tag, tag_len) once all the data was fed
ChunkFinish ==
  /\ pc = "chunks"
  /\ phase = "data"
  /\ Len(ciphertext) = Len(plaintext)
  /\ gctx' = sm4_gcm_finish(gctx, tag_len).ctx
  /\ tag' = sm4_gcm_finish(gctx, tag_len).tag
  /\ phase' = "finished"
  /\ call' = "finish"
  /\ UNCHANGED <<pc, hashvars, sm4vars, simdvars, gcminputs, ciphertext, decvars,
                 calls, call_ret>>

NextGcmChunks ==
  \/ ChunkInit
  \/ \E mode \in GcmModes : ChunkStarts(mode)
  \/ \E n \in 1..48 : ChunkUpdate(n)
  \/ ChunkFinish

SpecGcmChunks == InitGcmChunks /\ [][NextGcmChunks]_vars

\* one sm4_gcm_update call over the data after the same init and starts
OneShot(mode, data) ==
  sm4_gcm_update(sm4_gcm_starts(sm4_gcm_init(NoContext, key), mode, iv), data)

\* C29: data fed to sm4_gcm_update in several calls whose lengths are all
\* multiples of 16 except possibly the last gives the same output bytes, the
\* same counter, the same ciphertext_len and GHASH state, and the same tag
\* from sm4_gcm_finish as one call over the concatenated data, in encrypt
\* and in decrypt mode.
C29_ChunkedEqualsOneShot ==
  (pc = "chunks" /\ phase \in {"data", "finished"}) =>
     LET whole == OneShot(gctx.mode, SubSeq(plaintext, 1, Len(ciphertext)))
     IN /\ ciphertext = whole.output
        /\ gctx.counter = whole.ctx.counter
        /\ gctx.ciphertext_len = whole.ctx.ciphertext_len
        /\ gctx.ciphertext_len = Len(ciphertext)
        /\ (phase = "data") => (gctx = whole.ctx)
        /\ (phase = "finished") =>
             /\ gctx = sm4_gcm_finish(whole.ctx, tag_len).ctx
             /\ tag = sm4_gcm_finish(whole.ctx, tag_len).tag
             /\ Len(tag) = 16

\* 48 bytes encrypted in three calls of 16 bytes and the tag produced
C29_Witness ==
  /\ pc = "chunks"
  /\ phase = "finished"
  /\ gctx.mode = SM4_GCM_ENCRYPT
  /\ Len(plaintext) = 48
  /\ calls = 3
  /\ Len(tag) = 16

\* 33 bytes decrypted in a call of 32 bytes and a call of one byte, from a
\* J0 on which the counter wraps
C29_WitnessDecrypt ==
  /\ pc = "chunks"
  /\ phase = "finished"
  /\ gctx.mode = SM4_GCM_DECRYPT
  /\ iv = WrapIv
  /\ Len(plaintext) = 33
  /\ calls = 2
  /\ Len(ciphertext) = 33

(***************************************************************************)
(* sm4_gcm_encrypt_simd against sm4_gcm_encrypt on the same arguments, in  *)
(* a build with and in a build without __AVX2__.                           *)
(***************************************************************************)
SimdPlaintexts == {NoBytes, Msg(7, 1), Msg(17, 1)}

InitGcmSimd ==
  /\ pc = "start"
  /\ avx2 \in BOOLEAN
  /\ sctx = StackSimdContext(0)
  /\ s_ciphertext = NoBytes
  /\ s_tag = NoBytes
  /\ InitIdleHash
  /\ InitIdleSm4
  /\ InitIdleGcm

\* sm4_gcm_simd_init(&ctx, key), or sm4_gcm_init where the macro makes the
\* call a call of sm4_gcm_encrypt
SimdInit ==
  /\ pc = "start"
  /\ \E k \in Keys, stack_byte \in StackBytes :
       /\ key' = k
       /\ sctx' = IF avx2 THEN sm4_gcm_simd_init(StackSimdContext(stack_byte), k)
                  ELSE [sctx EXCEPT
                          !.base = sm4_gcm_init(StackContext(stack_byte), k)]
  /\ pc' = "s_init"
  /\ UNCHANGED <<hashvars, sm4vars, ordervars, iv, aad, plaintext, tag_len, encvars, decvars,
                 avx2, s_ciphertext, s_tag>>

\* sm4_gcm_starts(&ctx.base, SM4_GCM_ENCRYPT, iv, iv_len)
SimdStarts ==
  /\ pc = "s_init"
  /\ \E v \in Ivs :
       /\ iv' = v
       /\ sctx' = [sctx EXCEPT !.base = sm4_gcm_starts(@, SM4_GCM_ENCRYPT, v)]
  /\ pc' = "s_starts"
  /\ UNCHANGED <<hashvars, sm4vars, ordervars, key, aad, plaintext, tag_len, encvars, decvars,
                 avx2, s_ciphertext, s_tag>>

\* sm4_gcm_update_ad(&ctx.base, aad, aad_len)
SimdUpdateAd ==
  /\ pc = "s_starts"
  /\ \E a \in Aads :
       /\ aad' = a
       /\ sctx' = [sctx EXCEPT !.base = sm4_gcm_update_ad(@, a)]
  /\ pc' = "s_ad"
  /\ UNCHANGED <<hashvars, sm4vars, ordervars, key, iv, plaintext, tag_len, encvars, decvars,
                 avx2, s_ciphertext, s_tag>>

\* sm4_gcm_simd_update(&ctx, pt_len, plaintext, ciphertext), or
\* sm4_gcm_update under the macro
SimdUpdate ==
  /\ pc = "s_ad"
  /\ \E p \in SimdPlaintexts :
       LET u == IF avx2 THEN sm4_gcm_simd_update(sctx, p)
                ELSE LET b == sm4_gcm_update(sctx.base, p)
                     IN [ctx |-> [sctx EXCEPT !.base = b.ctx], output |-> b.output]
       IN /\ plaintext' = p
          /\ sctx' = u.ctx
          /\ s_ciphertext' = u.output
  /\ pc' = "s_update"
  /\ UNCHANGED <<hashvars, sm4vars, ordervars, key, iv, aad, tag_len, encvars, decvars,
                 avx2, s_tag>>

\* sm4_gcm_simd_finish(&ctx, tag, tag_len), or sm4_gcm_finish under the macro
SimdFinish ==
  /\ pc = "s_update"
  /\ \E t \in TagLens :
       LET f == IF avx2 THEN sm4_gcm_simd_finish(sctx, t)
                ELSE LET b == sm4_gcm_finish(sctx.base, t)
                     IN [ctx |-> [sctx EXCEPT !.base = b.ctx], tag |-> b.tag]
       IN /\ tag_len' = t
          /\ sctx' = f.ctx
          /\ s_tag' = f.tag
  /\ pc' = "s_finish"
  /\ UNCHANGED <<hashvars, sm4vars, ordervars, key, iv, aad, plaintext, encvars, decvars,
                 avx2, s_ciphertext>>

\* the reference: sm4_gcm_encrypt on the same arguments
ReferenceEncrypt ==
  /\ pc = "s_finish"
  /\ LET e == sm4_gcm_encrypt(key, iv, aad, plaintext, tag_len)
     IN /\ ciphertext' = e.ciphertext
        /\ tag' = e.tag
  /\ pc' = "compared"
  /\ UNCHANGED <<hashvars, sm4vars, ordervars, gcminputs, gctx, decvars, simdvars>>

NextGcmSimd ==
  \/ SimdInit
  \/ SimdStarts
  \/ SimdUpdateAd
  \/ SimdUpdate
  \/ SimdFinish
  \/ ReferenceEncrypt

SpecGcmSimd == InitGcmSimd /\ [][NextGcmSimd]_vars

\* C10: sm4_gcm_encrypt_simd writes the ciphertext and the tag that
\* sm4_gcm_encrypt writes for the same key, IV, AAD and plaintext
C10_SimdEqualsReference ==
  (pc = "compared") => (s_ciphertext = ciphertext /\ s_tag = tag)

\* C10 in the build without __AVX2__, where the two names are one function
C10_FallbackEqualsReference ==
  (pc = "compared" /\ ~avx2) => (s_ciphertext = ciphertext /\ s_tag = tag)

\* C10 on the ciphertext alone, which no GHASH enters, in the __AVX2__ build
C10_SimdCiphertextEqualsReference ==
  (pc = "compared" /\ avx2) => (s_ciphertext = ciphertext)


(***************************************************************************)
(* Building a Merkle tree with the worker threads of merkle_tree_build,    *)
(* then proving and verifying the inclusion of one leaf.  A worker's       *)
(* iteration is three steps, the load of nodes[i], the load of             *)
(* nodes[i + 1] and the store to nodes[i / 2]; the threads of a level run  *)
(* them in any order.                                                      *)
(***************************************************************************)
MaxLeaves == 5

\* the data of the k-th leaf added
LeafData(k) == <<k>>

\* the leaf nodes merkle_tree_build creates
LeafNodes(hashes) == [k \in 1..Len(hashes) |-> merkle_node_create(hashes[k])]

InitMerkle ==
  /\ pc = "start"
  /\ InitIdleHash
  /\ InitIdleSm4
  /\ InitIdleGcm
  /\ InitIdleSimd

\* merkle_tree_add_leaf(tree, data, data_len) on a tree of capacity MaxLeaves
MerkleAddLeaf ==
  /\ pc = "start"
  /\ Len(leaf_hashes) < MaxLeaves
  /\ leaf_hashes' = Append(leaf_hashes, hash_leaf(LeafData(Len(leaf_hashes))))
  /\ UNCHANGED <<pc, sm3vars, streamvars, levars, optvars, current_level,
                 current_count, workers, root, proof, verify_ret,
                 forged, build_ret, sm4vars, gcmvars, simdvars>>

\* merkle_tree_build up to its level loop
MerkleBuildStart ==
  /\ pc = "start"
  /\ IF Len(leaf_hashes) = 0
     THEN /\ pc' = "build_failed"
          /\ build_ret' = -1
          /\ UNCHANGED <<current_level, current_count>>
     ELSE /\ current_level' = LeafNodes(leaf_hashes)
          /\ current_count' = Len(leaf_hashes)
          /\ pc' = "level"
          /\ UNCHANGED build_ret
  /\ UNCHANGED <<sm3vars, streamvars, levars, optvars, leaf_hashes, workers,
                 root, proof, verify_ret, forged, sm4vars, gcmvars, simdvars>>

\* the launch loop of one level: the threads whose range starts inside it
MerkleLaunch ==
  /\ pc = "level"
  /\ current_count > 1
  /\ workers' = [t \in Threads |->
                   IF StartIndex(t, current_count) < current_count
                   THEN [pc |-> "left", i |-> StartIndex(t, current_count),
                         end_index |-> EndIndex(t, current_count),
                         left |-> NULL, right |-> NULL]
                   ELSE IdleWorker]
  /\ pc' = "workers"
  /\ UNCHANGED <<sm3vars, streamvars, levars, optvars, leaf_hashes,
                 current_level, current_count, root, proof, verify_ret,
                 forged, build_ret, sm4vars, gcmvars, simdvars>>

\* hash_level_worker: the loop test and the load of data->nodes[i]
WorkerLoadLeft(t) ==
  /\ pc = "workers"
  /\ workers[t].pc = "left"
  /\ workers' = IF workers[t].i < workers[t].end_index
                THEN [workers EXCEPT ![t].left = current_level[workers[t].i + 1],
                                     ![t].pc = "right"]
                ELSE [workers EXCEPT ![t].pc = "done"]
  /\ UNCHANGED <<pc, sm3vars, streamvars, levars, optvars, leaf_hashes,
                 current_level, current_count, root, proof, verify_ret,
                 forged, build_ret, sm4vars, gcmvars, simdvars>>

\* hash_level_worker: the load of data->nodes[i + 1].  Past the end of the
\* array (an odd level) the load is out of bounds: it yields NULL, or a
\* pointer whose dereference ends the process.
WorkerLoadRight(t) ==
  /\ pc = "workers"
  /\ workers[t].pc = "right"
  /\ IF workers[t].left = NULL
     THEN /\ workers' = [workers EXCEPT ![t].right = NULL, ![t].pc = "store"]
          /\ pc' = pc
     ELSE IF workers[t].i + 1 < Len(current_level)
     THEN /\ workers' = [workers EXCEPT ![t].right = current_level[workers[t].i + 2],
                                        ![t].pc = "store"]
          /\ pc' = pc
     ELSE \E wild \in BOOLEAN :
            IF wild
            THEN /\ pc' = "crashed"
                 /\ UNCHANGED workers
            ELSE /\ workers' = [workers EXCEPT ![t].right = NULL, ![t].pc = "store"]
                 /\ pc' = pc
  /\ UNCHANGED <<sm3vars, streamvars, levars, optvars, leaf_hashes,
                 current_level, current_count, root, proof, verify_ret,
                 forged, build_ret, sm4vars, gcmvars, simdvars>>

\* hash_level_worker: the store to data->nodes[i / 2] and i += 2
WorkerStore(t) ==
  /\ pc = "workers"
  /\ workers[t].pc = "store"
  /\ current_level' =
       [current_level EXCEPT ![(workers[t].i \div 2) + 1] =
          StoredNode(workers[t].left, workers[t].right, @)]
  /\ workers' = [workers EXCEPT ![t].i = @ + 2, ![t].left = NULL,
                                ![t].right = NULL, ![t].pc = "left"]
  /\ UNCHANGED <<pc, sm3vars, streamvars, levars, optvars, leaf_hashes,
                 current_count, root, proof, verify_ret,
                 forged, build_ret, sm4vars, gcmvars, simdvars>>

\* a join loop that waits for no thread
JoinedWithoutWaiting == TRUE

\* the pthread_join loop has returned from every thread that was created
AllJoined == \A t \in Threads : workers[t].pc \in {"idle", "done"}

\* the joins of one level, the copy into next_level and the switch to it
MerkleJoin ==
  /\ pc = "workers"
  /\ AllJoined
  /\ current_level' = SubSeq(current_level, 1, (current_count + 1) \div 2)
  /\ current_count' = (current_count + 1) \div 2
  /\ workers' = [t \in Threads |-> IdleWorker]
  /\ pc' = "level"
  /\ UNCHANGED <<sm3vars, streamvars, levars, optvars, leaf_hashes,
                 root, proof, verify_ret, forged, build_ret, sm4vars, gcmvars, simdvars>>

\* the end of merkle_tree_build: tree->root = current_level[0]
MerkleBuildFinish ==
  /\ pc = "level"
  /\ current_count <= 1
  /\ root' = current_level[1]
  /\ build_ret' = 0
  /\ pc' = "built"
  /\ UNCHANGED <<sm3vars, streamvars, levars, optvars, leaf_hashes,
                 current_level, current_count, workers, proof, verify_ret,
                 forged, sm4vars, gcmvars, simdvars>>

\* proof = merkle_tree_generate_inclusion_proof(tree, leaf_index).  A walk
\* longer than the path entries allocated writes past them: the call then
\* ends the process, or returns the proof it walked.
MerkleProve(leaf_index) ==
  /\ pc = "built"
  /\ leaf_index < Len(leaf_hashes)
  /\ LET p == merkle_tree_generate_inclusion_proof(root, Len(leaf_hashes), leaf_index)
     IN IF Len(p.path) > p.allocated
        THEN \E crash \in BOOLEAN :
               IF crash
               THEN /\ pc' = "crashed"
                    /\ proof' = proof
               ELSE /\ pc' = "proved"
                    /\ proof' = p
        ELSE /\ pc' = "proved"
             /\ proof' = p
  /\ UNCHANGED <<sm3vars, streamvars, levars, optvars, leaf_hashes,
                 current_level, current_count, workers, root, verify_ret,
                 forged, build_ret, sm4vars, gcmvars, simdvars>>

\* merkle_tree_verify_inclusion_proof(proof, tree->leaf_hashes[leaf_index], tree->root->hash)
MerkleVerify ==
  /\ pc = "proved"
  /\ verify_ret' = merkle_tree_verify_inclusion_proof(
                     proof, leaf_hashes[proof.leaf_index + 1], root.hash)
  /\ pc' = "verified"
  /\ UNCHANGED <<sm3vars, streamvars, levars, optvars, leaf_hashes,
                 current_level, current_count, workers, root, proof,
                 forged, build_ret, sm4vars, gcmvars, simdvars>>

NextMerkle ==
  \/ MerkleAddLeaf
  \/ MerkleBuildStart
  \/ MerkleLaunch
  \/ \E t \in Threads : WorkerLoadLeft(t)
  \/ \E t \in Threads : WorkerLoadRight(t)
  \/ \E t \in Threads : WorkerStore(t)
  \/ MerkleJoin
  \/ MerkleBuildFinish
  \/ \E leaf_index \in 0..(MaxLeaves - 1) : MerkleProve(leaf_index)
  \/ MerkleVerify

SpecMerkle == InitMerkle /\ [][NextMerkle]_vars

\* C1: for every tree merkle_tree_build has built and every leaf index
\* below the leaf count, verifying the generated inclusion proof against
\* that leaf's hash and the root hash returns true.
C1_EveryProofVerifies == (pc = "verified") => (verify_ret = 1)

\* C2: whatever the interleaving of the worker threads, the root hash
\* merkle_tree_build leaves is the root hash a single worker produces over
\* the same leaves.
C2_RootEqualsSingleWorkerRoot ==
  (pc = "built") => (root.hash = SingleWorkerRoot(LeafNodes(leaf_hashes)).hash)

\* the values i takes in the loop of the worker of thread u on this level
LoopIndices(u) ==
  {i \in StartIndex(u, current_count) .. (EndIndex(u, current_count) - 1) :
     (i - StartIndex(u, current_count)) % 2 = 0}

\* the slots of data->nodes the worker of thread u loads on this level
ReadSlots(u) == LoopIndices(u) \cup {i + 1 : i \in LoopIndices(u)}

\* the slots of data->nodes the worker of thread u stores to on this level
WriteSlots(u) == {i \div 2 : i \in LoopIndices(u)}

\* the threads merkle_tree_build creates on this level
Created == {u \in Threads : StartIndex(u, current_count) < current_count}

\* C17: on every level, the slot a worker stores to is a slot no other
\* worker of that level loads or stores to.
C17_StoresAreToUnsharedSlots ==
  [][\A t \in Threads :
       (pc = "workers" /\ workers[t].pc = "store" /\ workers'[t].pc = "left")
         => \A u \in Created \ {t} :
              (workers[t].i \div 2) \notin (ReadSlots(u) \cup WriteSlots(u))]_vars

\* C17, on the array alone: the workers leave the array they read as it was
C17_CurrentLevelReadOnly ==
  [][(pc = "workers" /\ pc' = "workers") => (current_level' = current_level)]_vars

\* C18: the workers of a level are created only when no worker of the level
\* before is left running or unjoined, and the results of a level are copied
\* to the next level only when every worker created for it has terminated.
C18_LevelsAreSequential ==
  [][/\ (pc = "level" /\ pc' = "workers")
          => \A t \in Threads : workers[t].pc = "idle"
     /\ (pc = "workers" /\ pc' = "level")
          => /\ \A t \in Threads : workers[t].pc \in {"idle", "done"}
             /\ \A t \in Created : workers[t].pc = "done"
             /\ \A t \in Threads : workers'[t].pc = "idle"]_vars

\* the workers of the second level of a tree run
C18_Witness ==
  /\ pc = "workers"
  /\ Len(leaf_hashes) = MaxLeaves
  /\ current_count = (Len(leaf_hashes) + 1) \div 2
  /\ \E t \in Threads : workers[t].pc = "store"

\* the level after nodes: adjacent pairs combined once, an odd trailing node
\* carried as it is
ExpectedNextLevel(nodes) ==
  [k \in 1..((Len(nodes) + 1) \div 2) |->
     IF 2 * k <= Len(nodes) THEN ParentNode(nodes[(2 * k) - 1], nodes[2 * k])
     ELSE nodes[(2 * k) - 1]]

\* the level of count nodes that follows from nodes that way
RECURSIVE ExpectedLevel(_, _)
ExpectedLevel(nodes, count) ==
  IF Len(nodes) <= count THEN nodes
  ELSE ExpectedLevel(ExpectedNextLevel(nodes), count)

\* C19: every level merkle_tree_build reaches holds, for each adjacent pair
\* of the level before, their parent, and after an odd level the trailing
\* node itself (same hash, leaf_count and height) in its last slot, so
\* ceil(count/2) nodes; the build reaches every level.
C19_OddNodeCarried ==
  /\ ~(pc = "crashed" /\ root = NULL)
  /\ (pc = "level")
       => (/\ Len(current_level) = current_count
           /\ current_level = ExpectedLevel(LeafNodes(leaf_hashes), current_count))

\* C19, the last part alone: no load of a worker ends the build
C19_CrashFree == ~(pc = "crashed" /\ root = NULL)


\* C27: every slot hash_level_worker loads, nodes[i] and nodes[i + 1], is
\* at an index below the number of nodes of the current level, the last
\* index of an odd-sized level included.
C27_LoadsWithinLevel ==
  (pc = "workers") =>
     \A t \in Threads :
        /\ (workers[t].pc = "right") => (workers[t].i < current_count)
        /\ (workers[t].pc = "right" /\ workers[t].left # NULL)
             => (workers[t].i + 1 < current_count)

\* C27 over the ranges alone: no slot in the range a worker is given, and
\* no right neighbour of one, lies past the level.
C27_RangesWithinLevel ==
  (pc = "workers") =>
     (\A u \in Created : \A k \in ReadSlots(u) : k < current_count)

\* C27 for the levels of even size, where the claim holds: a worker is at
\* the load of nodes[i + 1] for the last pair of the level
C27_EvenLevelLoad ==
  /\ pc = "workers"
  /\ current_count % 2 = 0
  /\ \E t \in Threads :
        /\ workers[t].pc = "right"
        /\ workers[t].left # NULL
        /\ workers[t].i + 2 = current_count


\* C30: for every built tree of n >= 1 leaves and every leaf index i < n,
\* merkle_tree_generate_inclusion_proof writes at most the ceil(log2(n))
\* path entries it allocated: no leaf of the built tree lies deeper.
C30_PathWithinAllocation ==
  (pc = "built") =>
     \A leaf_index \in 0..(Len(leaf_hashes) - 1) :
        LET p == merkle_tree_generate_inclusion_proof(root, Len(leaf_hashes), leaf_index)
        IN /\ p # NULL
           /\ Len(p.path) <= p.allocated
           /\ p.allocated = CeilLog2(Len(leaf_hashes))

\* the same on the proofs the calls returned
C30_ReturnedPathWithinAllocation ==
  (pc = "proved") => (Len(proof.path) <= proof.allocated)

\* a built tree whose leaves all lie within ceil(log2(n)) levels of the root
C30_ShallowTree ==
  /\ pc = "proved"
  /\ Len(leaf_hashes) = MaxLeaves
  /\ Len(proof.path) = proof.allocated

(***************************************************************************)
(* Calls of the proof functions on other arguments than the generated      *)
(* proof of an existing leaf (project4/src/merkle_tree.c)                  *)
(***************************************************************************)
\* positions of the byte changed in a 32-byte hash, and the values XORed in
ChangedBytes == {0, 31}

ChangeMasks == {1, 255}

\* the 32 bytes of hash h with byte k XORed with mask: a value other than h
ChangeByte(h, k, mask) == [sm3 |-> h.sm3, changed |-> <<k, mask>>]

\* the sequence s back to front
RECURSIVE Reversed(_)
Reversed(s) == IF Len(s) = 0 THEN <<>> ELSE Append(Reversed(Tail(s)), Head(s))

\* the proof of the same leaf with its siblings listed from the leaf up,
\* the order the loop of merkle_tree_verify_inclusion_proof folds them in
LeafToRoot(p) ==
  [p EXCEPT !.path = Reversed(p.path), !.directions = Reversed(p.directions)]

\* a caller hands over a proof it assembled itself
MerkleSupplyProof(leaf_index) ==
  /\ pc = "built"
  /\ leaf_index < Len(leaf_hashes)
  /\ proof' = LeafToRoot(
                merkle_tree_generate_inclusion_proof(root, Len(leaf_hashes), leaf_index))
  /\ pc' = "proved"
  /\ UNCHANGED <<sm3vars, streamvars, levars, optvars, leaf_hashes,
                 current_level, current_count, workers, root, verify_ret,
                 forged, build_ret, sm4vars, gcmvars, simdvars>>

\* one byte of path entry entry - 1 (entry 0: of the leaf hash) of a proof
\* that verified is changed
MerkleTamper(entry, k, mask) ==
  /\ pc = "verified"
  /\ verify_ret = 1
  /\ entry <= Len(proof.path)
  /\ forged' =
       IF entry = 0
       THEN [proof |-> proof,
             leaf_hash |-> ChangeByte(leaf_hashes[proof.leaf_index + 1], k, mask)]
       ELSE [proof |-> [proof EXCEPT !.path[entry] = ChangeByte(proof.path[entry], k, mask)],
             leaf_hash |-> leaf_hashes[proof.leaf_index + 1]]
  /\ pc' = "tampered"
  /\ UNCHANGED <<sm3vars, streamvars, levars, optvars, leaf_hashes,
                 current_level, current_count, workers, root, proof, verify_ret,
                 build_ret, sm4vars, gcmvars, simdvars>>

\* merkle_tree_verify_inclusion_proof on the changed proof and leaf hash
MerkleVerifyTampered ==
  /\ pc = "tampered"
  /\ verify_ret' = merkle_tree_verify_inclusion_proof(
                     forged.proof, forged.leaf_hash, root.hash)
  /\ pc' = "reverified"
  /\ UNCHANGED <<sm3vars, streamvars, levars, optvars, leaf_hashes,
                 current_level, current_count, workers, root, proof, forged,
                 build_ret, sm4vars, gcmvars, simdvars>>

\* merkle_tree_generate_inclusion_proof(tree, leaf_index) on a tree without
\* root (not built, or the build failed) or with leaf_index past the leaves
MerkleProveOutside(leaf_index) ==
  /\ \/ pc \in {"start", "build_failed"}
     \/ pc = "built" /\ leaf_index >= Len(leaf_hashes)
  /\ proof' = merkle_tree_generate_inclusion_proof(root, Len(leaf_hashes), leaf_index)
  /\ pc' = "asked"
  /\ UNCHANGED <<sm3vars, streamvars, levars, optvars, leaf_hashes,
                 current_level, current_count, workers, root, verify_ret,
                 forged, build_ret, sm4vars, gcmvars, simdvars>>

NextMerkleCalls ==
  \/ NextMerkle
  \/ \E leaf_index \in 0..MaxLeaves : MerkleProveOutside(leaf_index)
  \/ \E leaf_index \in 0..(MaxLeaves - 1) : MerkleSupplyProof(leaf_index)
  \/ \E entry \in 0..MaxLeaves, k \in ChangedBytes, mask \in ChangeMasks :
        MerkleTamper(entry, k, mask)
  \/ MerkleVerifyTampered

SpecMerkleCalls == InitMerkle /\ [][NextMerkleCalls]_vars

\* C12: once a proof and a leaf hash have verified against a root, the same
\* proof with one byte of one sibling hash changed, or the same proof with
\* one byte of the leaf hash changed, is rejected
\* (merkle_tree_verify_inclusion_proof returns 0), SM3 taken collision-free.
C12_ChangedByteRejected == (pc = "reverified") => (verify_ret = 0)

\* a three-entry proof that verified and was rejected with its last sibling
\* hash changed
C12_Witness ==
  /\ pc = "reverified"
  /\ Len(proof.path) = 3
  /\ forged.proof.path[3] # proof.path[3]
  /\ forged.proof.path[1] = proof.path[1]
  /\ verify_ret = 0

\* a proof that verified and was rejected with the leaf hash changed
C12_WitnessLeaf ==
  /\ pc = "reverified"
  /\ forged.proof = proof
  /\ forged.leaf_hash # leaf_hashes[proof.leaf_index + 1]
  /\ verify_ret = 0

\* C13: merkle_tree_build on a tree without leaves returns -1 and leaves
\* the root unset; merkle_tree_generate_inclusion_proof called with
\* leaf_index >= leaf_count, or on a tree without root, returns NULL and
\* leaves the leaves and the root as they were.
C13_RefusedCallsLeaveTree ==
  [][/\ (pc = "start" /\ pc' \in {"level", "build_failed"} /\ Len(leaf_hashes) = 0)
          => (pc' = "build_failed" /\ build_ret' = -1 /\ root' = NULL)
     /\ (pc # "asked" /\ pc' = "asked")
          => (/\ proof' = NULL
              /\ UNCHANGED <<leaf_hashes, root, current_level, current_count>>)]_vars

\* the build of an empty tree failed and a proof asked of it came back NULL
C13_Witness ==
  /\ pc = "asked"
  /\ build_ret = -1
  /\ root = NULL
  /\ Len(leaf_hashes) = 0
  /\ proof = NULL

\* a proof asked of a built tree for an index past its leaves came back NULL
C13_WitnessIndex ==
  /\ pc = "asked"
  /\ root # NULL
  /\ proof = NULL

=============================================================================
